---- MODULE Spec2Model ----
(***************************************************************************)
(* Model of the smart orchestrator (src/smart_orchestrator.py): the query  *)
(* classifier, the query preprocessor, the five execution patterns of      *)
(* SmartOrchestrator.run over the remote agents, and response extraction.  *)
(*                                                                         *)
(* A Python str is a sequence of one-character strings, so that substring  *)
(* tests, replace, strip and concatenation are computed as Python computes *)
(* them.  A Python object is a record holding the attributes it has:       *)
(* hasattr(o, "f") is "f" \in DOMAIN o.                                    *)
(***************************************************************************)
EXTENDS Integers, Sequences, FiniteSets, TLC

VARIABLES
    user_query,       \* the argument of SmartOrchestrator.run
    routing_info,     \* run: routing_info = self._analyze_query(user_query)
    processed_query,  \* run: processed_query = self._preprocess_query(...)
    result,           \* run: the result dict (an "error" key only after a failure)
    pc,               \* where the run coroutine is suspended
    calls,            \* per agent: the state of its run() call, its argument, its outcome
    frame,            \* locals of the executing workflow coroutine
    connected,        \* per agent: the outcome of its agent-card handshake in __aenter__
    other,            \* the locals of a second run coroutine on the same orchestrator
    extraction,       \* a response handed to an extractor, and what the extractor made of it
    executor          \* an agent executor serving one A2A task: its position and its events

vars == <<user_query, routing_info, processed_query, result, pc, calls, frame, connected,
         other, extraction, executor>>

----------------------------------------------------------------------------
(* Python str operations *)

\* str.lower() on one character (ASCII letters).
UpperLetters == <<"A","B","C","D","E","F","G","H","I","J","K","L","M","N","O","P","Q","R","S","T","U","V","W","X","Y","Z">>
LowerLetters == <<"a","b","c","d","e","f","g","h","i","j","k","l","m","n","o","p","q","r","s","t","u","v","w","x","y","z">>

LowerChar(c) ==
    IF \E i \in DOMAIN UpperLetters : UpperLetters[i] = c
    THEN LowerLetters[CHOOSE i \in DOMAIN UpperLetters : UpperLetters[i] = c]
    ELSE c

\* str.lower()
Lower(s) == [i \in DOMAIN s |-> LowerChar(s[i])]

\* s.startswith(k)
StartsWith(s, k) == Len(k) <= Len(s) /\ SubSeq(s, 1, Len(k)) = k

\* k in s  (substring test)
Contains(s, k) == \E i \in 0..(Len(s) - Len(k)) : SubSeq(s, i + 1, i + Len(k)) = k

\* s.find(k) + 1: the position of the first occurrence of k in s, 0 when there is none
Find(s, k) ==
    IF Contains(s, k)
    THEN CHOOSE i \in 1..(Len(s) - Len(k) + 1) :
            /\ SubSeq(s, i, i + Len(k) - 1) = k
            /\ \A j \in 1..(i - 1) : SubSeq(s, j, j + Len(k) - 1) # k
    ELSE 0

\* s.replace(k, ''): every non-overlapping occurrence, scanning left to right once.
RECURSIVE ReplaceAll(_, _)
ReplaceAll(s, k) ==
    IF Len(k) = 0 \/ Find(s, k) = 0 THEN s
    ELSE LET i == Find(s, k)
         IN  SubSeq(s, 1, i - 1) \o ReplaceAll(SubSeq(s, i + Len(k), Len(s)), k)

\* the characters str.strip() removes
Whitespace == {" ", "\t", "\n", "\r", "\f"}

RECURSIVE LStrip(_)
LStrip(s) == IF s # <<>> /\ Head(s) \in Whitespace THEN LStrip(Tail(s)) ELSE s

RECURSIVE RStrip(_)
RStrip(s) ==
    IF s # <<>> /\ s[Len(s)] \in Whitespace THEN RStrip(SubSeq(s, 1, Len(s) - 1)) ELSE s

\* str.strip()
Strip(s) == RStrip(LStrip(s))

\* any(kw in s for kw in kws)
AnyIn(kws, s) == \E i \in DOMAIN kws : Contains(s, kws[i])

\* sep.join(parts)
RECURSIVE Join(_, _)
Join(sep, parts) ==
    IF parts = <<>> THEN <<>>
    ELSE IF Len(parts) = 1 THEN parts[1]
    ELSE parts[1] \o sep \o Join(sep, Tail(parts))

----------------------------------------------------------------------------
(* SmartOrchestrator._analyze_query *)

viz_facet_keywords ==
    << <<"c","h","a","r","t">>, <<"g","r","a","p","h">>, <<"p","l","o","t">>, <<"v","i","s","u","a","l","i","z">>, <<"b","a","r">>, <<"l","i","n","e">>, <<"p","i","e">> >>

databricks_facet_keywords ==
    << <<"g","d","o","t">>, <<"s","t","a","n","d","a","r","d">>, <<"m","a","t","e","r","i","a","l">>, <<"d","a","t","a","b","r","i","c","k","s">>, <<"c","a","t","a","l","o","g">>,
       <<"e","n","v","i","r","o","n","m","e","n","t","a","l">>, <<"c","o","m","p","l","i","a","n","c","e">>, <<"b","e","a","m"," ","t","y","p","e">>, <<"d","e","s","i","g","n"," ","p","a","r","a","m","e","t","e","r">> >>

sql_facet_keywords ==
    << <<"b","r","i","d","g","e">>, <<"s","p","a","n">>, <<"b","e","a","m">>, <<"1","0","0","1">>, <<"s","t","r","u","c","t","u","r","a","l">> >>

is_visualization(query) == AnyIn(viz_facet_keywords, Lower(query))
is_databricks(query) == AnyIn(databricks_facet_keywords, Lower(query))
is_sql(query) == AnyIn(sql_facet_keywords, Lower(query))

Routing(strategy, workflow, agents, query) ==
    [strategy |-> strategy, workflow |-> workflow, agents |-> agents,
     is_visualization |-> is_visualization(query),
     is_databricks |-> is_databricks(query),
     is_sql |-> is_sql(query)]

\* faulty variant: the three-facet rule is tested after the two-facet rules
analyze_query_two_facet_first(query) ==
    IF is_visualization(query) /\ is_sql(query)
    THEN Routing("sequential_chart", "chart_workflow", <<"SQL", "Python">>, query)
    ELSE IF is_databricks(query) /\ is_sql(query)
    THEN Routing("concurrent_data", "data_workflow", <<"SQL", "Databricks">>, query)
    ELSE IF is_visualization(query) /\ is_databricks(query) /\ is_sql(query)
    THEN Routing("three_agent_workflow", "comparison_chart",
                 <<"SQL", "Databricks", "Python">>, query)
    ELSE IF is_databricks(query)
    THEN Routing("direct_databricks", "None", <<"Databricks">>, query)
    ELSE Routing("direct_sql", "None", <<"SQL">>, query)

\* faulty variant: the sequential pipeline lists its agents in the wrong order
analyze_query_swapped_chart(query) ==
    IF is_visualization(query) /\ is_databricks(query) /\ is_sql(query)
    THEN Routing("three_agent_workflow", "comparison_chart",
                 <<"SQL", "Databricks", "Python">>, query)
    ELSE IF is_visualization(query) /\ is_sql(query)
    THEN Routing("sequential_chart", "chart_workflow", <<"Python", "SQL">>, query)
    ELSE IF is_databricks(query) /\ is_sql(query)
    THEN Routing("concurrent_data", "data_workflow", <<"SQL", "Databricks">>, query)
    ELSE IF is_databricks(query)
    THEN Routing("direct_databricks", "None", <<"Databricks">>, query)
    ELSE Routing("direct_sql", "None", <<"SQL">>, query)

\* faulty variant: the final else branch names no agent
analyze_query_empty_default(query) ==
    IF is_visualization(query) /\ is_databricks(query) /\ is_sql(query)
    THEN Routing("three_agent_workflow", "comparison_chart",
                 <<"SQL", "Databricks", "Python">>, query)
    ELSE IF is_visualization(query) /\ is_sql(query)
    THEN Routing("sequential_chart", "chart_workflow", <<"SQL", "Python">>, query)
    ELSE IF is_databricks(query) /\ is_sql(query)
    THEN Routing("concurrent_data", "data_workflow", <<"SQL", "Databricks">>, query)
    ELSE IF is_databricks(query)
    THEN Routing("direct_databricks", "None", <<"Databricks">>, query)
    ELSE IF is_sql(query)
    THEN Routing("direct_sql", "None", <<"SQL">>, query)
    ELSE Routing("direct_sql", "None", <<>>, query)

\* workflow None is the string "None"
analyze_query(query) ==
    IF is_visualization(query) /\ is_databricks(query) /\ is_sql(query)
    THEN Routing("three_agent_workflow", "comparison_chart",
                 <<"SQL", "Databricks", "Python">>, query)
    ELSE IF is_visualization(query) /\ is_sql(query)
    THEN Routing("sequential_chart", "chart_workflow", <<"SQL", "Python">>, query)
    ELSE IF is_databricks(query) /\ is_sql(query)
    THEN Routing("concurrent_data", "data_workflow", <<"SQL", "Databricks">>, query)
    ELSE IF is_databricks(query)
    THEN Routing("direct_databricks", "None", <<"Databricks">>, query)
    ELSE IF is_sql(query)
    THEN Routing("direct_sql", "None", <<"SQL">>, query)
    ELSE Routing("direct_sql", "None", <<"SQL">>, query)

----------------------------------------------------------------------------
(* The routing preview of the Streamlit UI (streamlit_app_v1.main) *)

preview_costing_keywords ==
    << <<"c","o","s","t">>, <<"p","r","i","c","e">>, <<"p","r","i","c","i","n","g">>, <<"m","a","r","k","e","t">>, <<"b","u","d","g","e","t">>, <<"v","e","n","d","o","r">>,
       <<"s","u","p","p","l","i","e","r">>, <<"e","c","o","n","o","m","i","c">>, <<"f","o","r","e","c","a","s","t">>, <<"t","r","e","n","d">>, <<"i","n","f","l","a","t","i","o","n">> >>

preview_viz_keywords == << <<"c","h","a","r","t">>, <<"g","r","a","p","h">>, <<"p","l","o","t">>, <<"v","i","s","u","a","l","i","z">> >>
preview_db_keywords == << <<"g","d","o","t">>, <<"s","t","a","n","d","a","r","d">>, <<"m","a","t","e","r","i","a","l">>, <<"d","a","t","a","b","r","i","c","k","s">> >>
preview_sql_keywords == << <<"b","r","i","d","g","e">>, <<"s","p","a","n">>, <<"b","e","a","m">>, <<"1","0","0","1">> >>

is_costing(query) == AnyIn(preview_costing_keywords, Lower(query))

\* the strategy line the preview shows
preview_strategy(query) ==
    LET q == Lower(query)
        is_viz == AnyIn(preview_viz_keywords, q)
        is_db == AnyIn(preview_db_keywords, q)
        is_sq == AnyIn(preview_sql_keywords, q)
    IN  IF is_costing(query) THEN "Direct Bing Grounding Agent"
        ELSE IF is_viz /\ is_db /\ is_sq THEN "Three-Agent Workflow"
        ELSE IF is_viz /\ is_sq THEN "Sequential Chart Workflow"
        ELSE IF is_db /\ is_sq THEN "Parallel Data Workflow"
        ELSE IF is_db THEN "Direct Databricks Agent"
        ELSE "Direct SQL Agent"

----------------------------------------------------------------------------
(* SmartOrchestrator._preprocess_query *)

viz_keywords ==
    << <<"a","s"," ","a"," ","b","a","r"," ","c","h","a","r","t">>, <<"a","s"," ","a"," ","c","h","a","r","t">>, <<"a","s"," ","a"," ","g","r","a","p","h">>, <<"a","s"," ","a"," ","p","l","o","t">>,
       <<"v","i","s","u","a","l","i","z","e">>, <<"v","i","s","u","a","l","i","z","a","t","i","o","n">>, <<"c","r","e","a","t","e"," ","a"," ","c","h","a","r","t">>, <<"s","h","o","w"," ","c","h","a","r","t">>,
       <<"p","l","o","t"," ","t","h","i","s">>, <<"g","r","a","p","h"," ","t","h","i","s">> >>

\* for keyword in viz_keywords[i..]: cleaned_query = cleaned_query.replace(keyword, '')
RECURSIVE StripKeywords(_, _, _)
StripKeywords(cleaned_query, kws, i) ==
    IF i > Len(kws) THEN cleaned_query
    ELSE StripKeywords(ReplaceAll(cleaned_query, kws[i]), kws, i + 1)

\* faulty variant: the phrases are stripped whatever the facet
preprocess_query_always(query, routing) ==
    Strip(StripKeywords(query, viz_keywords, 1))

preprocess_query(query, routing) ==
    IF routing.is_visualization
    THEN Strip(StripKeywords(query, viz_keywords, 1))
    ELSE query

----------------------------------------------------------------------------
(* SmartOrchestrator._extract_from_a2a_response *)

Has(obj, attr) == attr \in DOMAIN obj

\* None as the value of a str attribute, and as the value of an object attribute
None == <<"None">>
NoneObject == [none |-> TRUE]

\* truth value of a list
Truthy(s) == s # <<>>

\* truth value of a str or bytes attribute that may be None
TruthyStr(s) == s # <<>> /\ s # None

B64Alphabet == <<"A","B","C","D","E","F","G","H","I","J","K","L","M","N","O","P","Q","R","S","T","U","V","W","X","Y","Z","a","b","c","d","e","f","g","h","i","j","k","l","m","n","o","p","q","r","s","t","u","v","w","x","y","z","0","1","2","3","4","5","6","7","8","9","+","/">>

IsB64(c) == \E i \in DOMAIN B64Alphabet : B64Alphabet[i] = c
B64Index(c) == (CHOOSE i \in DOMAIN B64Alphabet : B64Alphabet[i] = c) - 1

\* base64.b64decode(s) (validate=False): characters outside the alphabet are
\* skipped, decoding stops at complete padding, an incomplete quad raises.
RECURSIVE A2bBase64(_, _, _, _, _, _)
A2bBase64(s, i, quad_pos, pads, leftchar, out) ==
    IF i > Len(s)
    THEN IF quad_pos # 0 THEN [ok |-> FALSE, data |-> <<>>] ELSE [ok |-> TRUE, data |-> out]
    ELSE IF s[i] = "="
    THEN IF quad_pos >= 2 /\ quad_pos + pads + 1 >= 4
         THEN [ok |-> TRUE, data |-> out]
         ELSE A2bBase64(s, i + 1, quad_pos, IF quad_pos >= 2 THEN pads + 1 ELSE pads,
                        leftchar, out)
    ELSE IF ~IsB64(s[i])
    THEN A2bBase64(s, i + 1, quad_pos, pads, leftchar, out)
    ELSE LET v == B64Index(s[i])
         IN  CASE quad_pos = 0 -> A2bBase64(s, i + 1, 1, 0, v, out)
               [] quad_pos = 1 ->
                    A2bBase64(s, i + 1, 2, 0, v % 16, Append(out, leftchar * 4 + v \div 16))
               [] quad_pos = 2 ->
                    A2bBase64(s, i + 1, 3, 0, v % 4, Append(out, leftchar * 16 + v \div 4))
               [] OTHER ->
                    A2bBase64(s, i + 1, 0, 0, 0, Append(out, leftchar * 64 + v))

b64decode(s) == A2bBase64(s, 1, 0, 0, 0, <<>>)

\* getattr(obj, attr, default)
GetAttr(obj, attr, default) == IF Has(obj, attr) THEN obj[attr] ELSE default

\* the body of "for part in status_msg.parts", on the accumulators
ExtractPart(part, acc) ==
    LET part_root == IF Has(part, "root") THEN part.root ELSE part
    IN  IF Has(part_root, "text") /\ TruthyStr(part_root.text)
        THEN [acc EXCEPT !.text_parts = Append(@, part_root.text)]
        ELSE IF Has(part_root, "file")
        THEN LET file_obj == part_root.file
             IN  IF Has(file_obj, "bytes") /\ TruthyStr(file_obj.bytes)
                 THEN LET decoded == b64decode(file_obj.bytes)
                      IN  IF decoded.ok
                          THEN [acc EXCEPT !.images =
                                   Append(@, [data |-> decoded.data,
                                              mime_type |-> GetAttr(file_obj, "mime_type", <<"i","m","a","g","e","/","p","n","g">>),
                                              name |-> GetAttr(file_obj, "name", <<"i","m","a","g","e",".","p","n","g">>)])]
                          ELSE acc
                 ELSE acc
        ELSE acc

RECURSIVE ExtractParts(_, _, _)
ExtractParts(parts, i, acc) ==
    IF i > Len(parts) THEN acc
    ELSE ExtractParts(parts, i + 1, ExtractPart(parts[i], acc))

\* the body of "for task in response.raw_representation", on the accumulators
ExtractTask(task, acc) ==
    IF Has(task, "status") /\ Has(task.status, "message")
    THEN LET status_msg == task.status.message
         IN  IF Has(status_msg, "parts") /\ Truthy(status_msg.parts)
             THEN ExtractParts(status_msg.parts, 1, acc)
             ELSE acc
    ELSE acc

RECURSIVE ExtractTasks(_, _, _)
ExtractTasks(tasks, i, acc) ==
    IF i > Len(tasks) THEN acc
    ELSE ExtractTasks(tasks, i + 1, ExtractTask(tasks[i], acc))

\* faulty variant: the extractor drops the text parts
extract_from_a2a_response_no_text(response) ==
    [text |-> <<>>, images |-> <<>>]

extract_from_a2a_response(response) ==
    LET acc == IF Has(response, "raw_representation") /\ Truthy(response.raw_representation)
               THEN ExtractTasks(response.raw_representation, 1,
                                 [text_parts |-> <<>>, images |-> <<>>])
               ELSE [text_parts |-> <<>>, images |-> <<>>]
    IN  [text |-> Join(<<"\n">>, acc.text_parts), images |-> acc.images]

----------------------------------------------------------------------------
(* SmartOrchestrator._extract_from_response *)

NoOutcome == [raised |-> FALSE, text_parts |-> <<>>, images |-> <<>>]

\* "if content_item.text not in text_parts"
InList(x, list) == \E i \in DOMAIN list : list[i] = x

\* the body of "for content_item in message.content"
WorkflowContentItem(content_item, acc) ==
    IF Has(content_item, "text") /\ TruthyStr(content_item.text)
       /\ ~InList(content_item.text, acc.text_parts)
    THEN [acc EXCEPT !.text_parts = Append(@, content_item.text)]
    ELSE acc

RECURSIVE WorkflowContent(_, _, _)
WorkflowContent(content, i, acc) ==
    IF i > Len(content) THEN acc
    ELSE WorkflowContent(content, i + 1, WorkflowContentItem(content[i], acc))

\* the body of "for message in response.messages"
WorkflowMessage(message, acc) ==
    LET with_text == IF Has(message, "text") /\ TruthyStr(message.text)
                     THEN [acc EXCEPT !.text_parts = Append(@, message.text)]
                     ELSE acc
    IN  IF Has(message, "content") /\ Truthy(message.content)
        THEN WorkflowContent(message.content, 1, with_text)
        ELSE with_text

RECURSIVE WorkflowMessages(_, _, _)
WorkflowMessages(messages, i, acc) ==
    IF i > Len(messages) THEN acc
    ELSE WorkflowMessages(messages, i + 1, WorkflowMessage(messages[i], acc))

\* the accumulators of _extract_from_response at its return statement
extract_from_response_parts(response) ==
    LET from_messages == IF Has(response, "messages")
                         THEN WorkflowMessages(response.messages, 1, NoOutcome)
                         ELSE NoOutcome
        a2a_extracted == extract_from_a2a_response(response)
        from_raw == IF Has(response, "raw_representation")
                    THEN [from_messages EXCEPT
                            !.text_parts = IF Truthy(a2a_extracted.text)
                                           THEN Append(@, a2a_extracted.text) ELSE @,
                            !.images = @ \o a2a_extracted.images]
                    ELSE from_messages
    IN  IF ~Truthy(from_raw.text_parts) /\ Has(response, "text") /\ TruthyStr(response.text)
        THEN [from_raw EXCEPT !.text_parts = Append(@, response.text)]
        ELSE from_raw

extract_from_response(response) ==
    LET acc == extract_from_response_parts(response)
    IN  [text |-> Join(<<"\n","\n">>, acc.text_parts), images |-> acc.images]

----------------------------------------------------------------------------
(* streamlit_app.create_visualization, from "result_text = ''" to its return *)

\* the body of "for part in msg.parts" and of "for part in status_msg.parts";
\* an exception ends the function
VisualizationPart(part, acc) ==
    IF acc.raised THEN acc
    ELSE IF ~Has(part, "root") THEN [acc EXCEPT !.raised = TRUE]
    ELSE LET part_root == part.root
         IN  IF Has(part_root, "text")
             THEN IF part_root.text = None
                  THEN [acc EXCEPT !.raised = TRUE]
                  ELSE [acc EXCEPT !.text_parts = Append(@, part_root.text)]
             ELSE IF Has(part_root, "file")
             THEN LET file_obj == part_root.file
                  IN  IF Has(file_obj, "bytes")
                      THEN IF file_obj.bytes = None
                           THEN [acc EXCEPT !.images = Append(@, None)]
                           ELSE LET decoded == b64decode(file_obj.bytes)
                                IN  IF decoded.ok
                                    THEN [acc EXCEPT !.images = Append(@, decoded.data)]
                                    ELSE [acc EXCEPT !.raised = TRUE]
                      ELSE acc
             ELSE acc

RECURSIVE VisualizationParts(_, _, _)
VisualizationParts(parts, i, acc) ==
    IF i > Len(parts) THEN acc
    ELSE VisualizationParts(parts, i + 1, VisualizationPart(parts[i], acc))

\* the body of "for msg in task.history"
VisualizationHistoryMessage(msg, acc) ==
    IF Has(msg, "parts") /\ Truthy(msg.parts)
    THEN VisualizationParts(msg.parts, 1, acc)
    ELSE acc

RECURSIVE VisualizationHistory(_, _, _)
VisualizationHistory(history, i, acc) ==
    IF i > Len(history) THEN acc
    ELSE VisualizationHistory(history, i + 1, VisualizationHistoryMessage(history[i], acc))

\* the body of "for task in response.raw_representation"
VisualizationTask(task, acc) ==
    LET from_history == IF Has(task, "history") /\ Truthy(task.history)
                        THEN VisualizationHistory(task.history, 1, acc)
                        ELSE acc
    IN  IF Has(task, "status") /\ Has(task.status, "message")
        THEN LET status_msg == task.status.message
             IN  IF Has(status_msg, "parts") /\ Truthy(status_msg.parts)
                 THEN VisualizationParts(status_msg.parts, 1, from_history)
                 ELSE from_history
        ELSE from_history

RECURSIVE VisualizationTasks(_, _, _)
VisualizationTasks(tasks, i, acc) ==
    IF i > Len(tasks) THEN acc
    ELSE VisualizationTasks(tasks, i + 1, VisualizationTask(tasks[i], acc))

create_visualization_parts(response) ==
    IF Has(response, "raw_representation") /\ Truthy(response.raw_representation)
    THEN VisualizationTasks(response.raw_representation, 1, NoOutcome)
    ELSE NoOutcome

\* result_text += part_root.text + "\n" for every text part, then
\* "return result_text.strip(), images"
RECURSIVE ConcatLines(_, _)
ConcatLines(text_parts, i) ==
    IF i > Len(text_parts) THEN <<>>
    ELSE text_parts[i] \o <<"\n">> \o ConcatLines(text_parts, i + 1)

create_visualization(response) ==
    LET acc == create_visualization_parts(response)
    IN  [raised |-> acc.raised,
         text |-> IF acc.raised THEN <<>> ELSE Strip(ConcatLines(acc.text_parts, 1)),
         images |-> IF acc.raised THEN <<>> ELSE acc.images]

----------------------------------------------------------------------------
(* Inputs: user queries, agent responses, agent failures *)

\* model bounds: the number of fragments a generated query is made of
MaxFrags == 2
MaxRunFrags == 1

\* every facet keyword, the costing keywords of the UI, and phrases with
\* capitals, separators and visualization phrasing
Fragments ==
    { viz_facet_keywords[i] : i \in DOMAIN viz_facet_keywords }
    \cup { databricks_facet_keywords[i] : i \in DOMAIN databricks_facet_keywords }
    \cup { sql_facet_keywords[i] : i \in DOMAIN sql_facet_keywords }
    \cup { preview_costing_keywords[i] : i \in DOMAIN preview_costing_keywords }
    \cup { <<" ">>, <<"B","r","i","d","g","e">>, <<"G","D","O","T">>, <<"C","h","a","r","t"," ">>, <<" ","a","s"," ","a"," ","b","a","r"," ","c","h","a","r","t">>, <<"v","i","s","u","a","l","i","z","e"," ">>, <<"s","h","o","w">> }

RECURSIVE QueriesUpTo(_)
QueriesUpTo(n) ==
    IF n = 0 THEN {<<>>}
    ELSE LET shorter == QueriesUpTo(n - 1)
         IN  shorter \cup { q \o f : q \in shorter, f \in Fragments }

\* queries offered by the UI (streamlit_app_v1.QUERY_CATEGORIES)
ExampleQueries ==
    { <<"S","h","o","w"," ","m","e"," ","B","r","i","d","g","e"," ","1","0","0","1"," ","s","p","a","n"," ","l","e","n","g","t","h","s"," ","a","s"," ","a"," ","b","a","r"," ","c","h","a","r","t">>,
      <<"V","i","s","u","a","l","i","z","e"," ","s","p","a","n"," ","l","e","n","g","t","h","s"," ","a","c","r","o","s","s"," ","a","l","l"," ","s","p","a","n","s"," ","i","n"," ","B","r","i","d","g","e"," ","1","0","0","1">>,
      <<"S","h","o","w"," ","m","e"," ","e","n","d"," ","b","e","n","t"," ","i","n","f","o","r","m","a","t","i","o","n"," ","f","o","r"," ","B","r","i","d","g","e"," ","1","0","0","1">>,
      <<"W","h","a","t"," ","G","D","O","T","-","a","p","p","r","o","v","e","d"," ","c","o","n","c","r","e","t","e"," ","m","a","t","e","r","i","a","l","s"," ","a","r","e"," ","a","v","a","i","l","a","b","l","e","?">>,
      <<"G","e","t"," ","B","r","i","d","g","e"," ","1","0","0","1"," ","s","t","r","u","c","t","u","r","a","l"," ","d","a","t","a"," ","a","n","d"," ","G","D","O","T"," ","m","a","t","e","r","i","a","l"," ","s","t","a","n","d","a","r","d","s">>,
      <<"C","o","m","p","a","r","e"," ","B","r","i","d","g","e"," ","1","0","0","1"," ","m","a","t","e","r","i","a","l","s"," ","w","i","t","h"," ","G","D","O","T"," ","s","t","a","n","d","a","r","d","s"," ","a","s"," ","a"," ","c","h","a","r","t">>,
      <<"C","o","m","p","a","r","e"," ","a","l","l"," ","B","r","i","d","g","e"," ","1","0","0","1"," ","s","t","r","u","c","t","u","r","a","l"," ","d","a","t","a"," ","w","i","t","h"," ","G","D","O","T"," ","s","t","a","n","d","a","r","d","s"," ","a","n","d"," ","c","r","e","a","t","e"," ","a"," ","v","i","s","u","a","l","i","z","a","t","i","o","n">>,
      <<"W","h","a","t"," ","i","s"," ","t","h","e"," ","c","u","r","r","e","n","t"," ","m","a","r","k","e","t"," ","p","r","i","c","e"," ","f","o","r"," ","s","t","r","u","c","t","u","r","a","l"," ","s","t","e","e","l"," ","i","n"," ","t","h","e"," ","U","n","i","t","e","d"," ","S","t","a","t","e","s","?">>,
      <<"W","h","o"," ","a","r","e"," ","t","h","e"," ","m","a","j","o","r"," ","s","t","r","u","c","t","u","r","a","l"," ","s","t","e","e","l"," ","s","u","p","p","l","i","e","r","s"," ","i","n"," ","t","h","e"," ","U","n","i","t","e","d"," ","S","t","a","t","e","s","?">> }

Queries == ExampleQueries \cup QueriesUpTo(MaxFrags)
RunQueries == ExampleQueries \cup QueriesUpTo(MaxRunFrags)

\* a2a objects, as the records of their attributes
TextPart(text) == [root |-> [kind |-> "text", text |-> text]]
FilePart(bytes, mime_type, name) ==
    [root |-> [kind |-> "file",
               file |-> [bytes |-> bytes, mime_type |-> mime_type, name |-> name]]]
Task(parts) == [status |-> [state |-> "completed", message |-> [parts |-> parts]]]
Message(parts) == [role |-> "agent", parts |-> parts]
TaskWithHistory(parts, history) ==
    [status |-> [state |-> "completed", message |-> [parts |-> parts]], history |-> history]
Response(tasks) == [raw_representation |-> tasks]

Agents == {"sql", "databricks", "python"}

\* what each agent's run() may return
Responses(agent) ==
    CASE agent = "sql" ->
           { Response(<<Task(<<TextPart(<<"S">>)>>)>>),
             Response(<<Task(<<TextPart(<<"s","p","a","n"," ","1",":"," ","3","0"," ","m">>), TextPart(<<"s","p","a","n"," ","2",":"," ","4","5"," ","m">>)>>)>>),
             Response(<<Task(<<TextPart(<<"S">>), FilePart(<<"Q","U","I","=">>, <<"i","m","a","g","e","/","p","n","g">>, <<"s","q","l",".","p","n","g">>)>>)>>),
             Response(<<>>) }
      [] agent = "databricks" ->
           { Response(<<Task(<<TextPart(<<"C">>)>>)>>),
             Response(<<Task(<<FilePart(<<"Q","0","Q","=">>, <<"i","m","a","g","e","/","j","p","e","g">>, <<"t","a","b","l","e",".","j","p","g">>), TextPart(<<"C">>)>>)>>),
             Response(<<Task(<<>>)>>) }
      [] agent = "python" ->
           { Response(<<Task(<<TextPart(<<"V">>),
                              FilePart(<<"i","V","B","O">>, <<"i","m","a","g","e","/","p","n","g">>, <<"c","h","a","r","t",".","p","n","g">>)>>)>>),
             Response(<<Task(<<TextPart(<<"n","o"," ","c","h","a","r","t">>)>>)>>),
             \* the task PythonToolAgentExecutor._process_request leaves behind:
             \* text and image in working updates, the text again on completion
             Response(<<TaskWithHistory(<<TextPart(<<"V">>)>>,
                          <<Message(<<TextPart(<<"P","r","o","c","e","s","s","i","n","g"," ","y","o","u","r"," ","r","e","q","u","e","s","t",".",".",".">>)>>),
                            Message(<<TextPart(<<"V">>)>>),
                            Message(<<FilePart(<<"i","V","B","O">>, <<"i","m","a","g","e","/","p","n","g">>,
                                               <<"v","i","s","u","a","l","i","z","a","t","i","o","n","_","1",".","p","n","g">>)>>)>>)>>) }

\* str(e) of the exceptions an agent's run() may raise (some carry no message)
AgentErrors == { <<"t","i","m","e","o","u","t">>, <<>> }

----------------------------------------------------------------------------
(* SmartOrchestrator.run and its workflows *)

NoResponse == Response(<<>>)
EmptyExtracted == [text |-> <<>>, images |-> <<>>]
EmptyDict == [k \in {} |-> <<>>]

\* d[k] = v on a Python dict
DictSet(d, k, v) == [x \in DOMAIN d \cup {k} |-> IF x = k THEN v ELSE d[x]]

\* a run() call of an agent: not made, a task created by gather and not yet
\* started, in flight, returned or raised
NoCall == [state |-> "none", arg |-> <<>>, response |-> NoResponse, error |-> <<>>, count |-> 0]
Call(state, arg) ==
    [state |-> state, arg |-> arg, response |-> NoResponse, error |-> <<>>, count |-> 1]

\* no second run, no extraction, no executor
NoOther == [pc |-> "absent"]
NoExtraction == [extractor |-> "none"]
NoExecutor == [pc |-> "absent"]

NoRouting ==
    [strategy |-> "unset", workflow |-> "None", agents |-> <<>>,
     is_visualization |-> FALSE, is_databricks |-> FALSE, is_sql |-> FALSE]

InitialFrame ==
    [awaiting |-> "none",           \* the agent a direct await waits for
     agent_name |-> "none",         \* _run_direct_agent's agent_name
     original_query |-> <<>>,
     sql_extracted |-> EmptyExtracted,
     databricks_extracted |-> EmptyExtracted,
     combined_data |-> <<>>,
     gather_exc |-> [raised |-> FALSE, error |-> <<>>],
     done_order |-> <<>>]           \* history: the agents in the order their calls ended

\* result = {...} in run
NewResult(query, routing) ==
    [query |-> query, routing |-> routing, text |-> <<>>, images |-> <<>>,
     agent_responses |-> EmptyDict]

\* faulty variant: the second call is only made once the first has been awaited
gather_calls_sequential(cs, query) ==
    [cs EXCEPT !["sql"] = Call("inflight", query)]

\* faulty variant: the fan-out starts the Python agent along with the two others
gather_calls_with_python(cs, query) ==
    [cs EXCEPT !["sql"] = Call("scheduled", query),
               !["databricks"] = Call("scheduled", query),
               !["python"] = Call("scheduled", query)]

\* sql_task = self.sql_agent.run(q); databricks_task = self.databricks_agent.run(q);
\* asyncio.gather(sql_task, databricks_task): both become tasks of the event loop
gather_calls(cs, query) ==
    [cs EXCEPT !["sql"] = Call("scheduled", query),
               !["databricks"] = Call("scheduled", query)]

\* await agent.run(arg): the call runs inside the awaiting coroutine
await_call(cs, agent, arg) ==
    [cs EXCEPT ![agent] = [Call("inflight", arg) EXCEPT !.count = cs[agent].count + 1]]

\* faulty variant: the fan-out forwards the lower-cased query of the classifier
data_workflow_query_lowered(user, processed) == Lower(user)

\* run: await self._run_data_workflow(user_query, result)
data_workflow_query(user, processed) == user

\* faulty variant: the sequential pipeline starts both agents at once
chart_workflow_start_speculative(cs, preprocessed_query, original_query) ==
    [cs EXCEPT !["sql"] = Call("inflight", preprocessed_query),
               !["python"] = Call("inflight", original_query)]

\* faulty variant: the SQL agent of the pipeline gets the original query
chart_workflow_start_original(cs, preprocessed_query, original_query) ==
    await_call(cs, "sql", original_query)

\* _run_chart_workflow up to its first await
chart_workflow_start(cs, preprocessed_query, original_query) ==
    await_call(cs, "sql", preprocessed_query)

\* faulty variant: the three-stage prompt carries the cleaned query
three_agent_viz_prompt_cleaned(combined_data, original_query, preprocessed_query) ==
    <<"C","r","e","a","t","e"," ","a"," ","c","o","m","p","a","r","i","s","o","n"," ","v","i","s","u","a","l","i","z","a","t","i","o","n"," ","f","o","r"," ","t","h","i","s"," ","d","a","t","a",":","\n","\n">> \o combined_data
    \o <<"\n","\n","O","r","i","g","i","n","a","l"," ","r","e","q","u","e","s","t",":"," ">> \o preprocessed_query

\* viz_prompt of _run_three_agent_workflow
three_agent_viz_prompt(combined_data, original_query, preprocessed_query) ==
    <<"C","r","e","a","t","e"," ","a"," ","c","o","m","p","a","r","i","s","o","n"," ","v","i","s","u","a","l","i","z","a","t","i","o","n"," ","f","o","r"," ","t","h","i","s"," ","d","a","t","a",":","\n","\n">> \o combined_data
    \o <<"\n","\n","O","r","i","g","i","n","a","l"," ","r","e","q","u","e","s","t",":"," ">> \o original_query

\* combined_data of _run_three_agent_workflow
three_agent_combined_data(sql_text, databricks_text) ==
    <<"=","=","="," ","B","r","i","d","g","e"," ","D","a","t","a"," ","(","S","Q","L",")"," ","=","=","=","\n">> \o sql_text
    \o <<"\n","\n","=","=","="," ","G","D","O","T"," ","S","t","a","n","d","a","r","d","s"," ","(","D","a","t","a","b","r","i","c","k","s",")"," ","=","=","=","\n">> \o databricks_text

\* viz_prompt of _run_chart_workflow
chart_viz_prompt(sql_text, original_query) ==
    <<"C","r","e","a","t","e"," ","a"," ","b","a","r"," ","c","h","a","r","t"," ","f","o","r"," ","t","h","i","s"," ","d","a","t","a",":","\n","\n">> \o sql_text
    \o <<"\n","\n","O","r","i","g","i","n","a","l"," ","r","e","q","u","e","s","t",":"," ">> \o original_query

\* faulty variant: the fan-out merges the Databricks payload first
data_workflow_result_swapped(res, sql_extracted, databricks_extracted) ==
    [res EXCEPT
        !.text = <<"=","=","="," ","D","a","t","a","b","r","i","c","k","s"," ","A","g","e","n","t"," ","=","=","=","\n">> \o databricks_extracted.text
                 \o <<"\n","\n","=","=","="," ","S","Q","L"," ","F","o","u","n","d","r","y"," ","A","g","e","n","t"," ","=","=","=","\n">> \o sql_extracted.text,
        !.images = databricks_extracted.images \o sql_extracted.images,
        !.agent_responses = DictSet(DictSet(@, "sql", sql_extracted.text),
                                    "databricks", databricks_extracted.text)]

\* "Combine results" of _run_data_workflow
data_workflow_result(res, sql_extracted, databricks_extracted) ==
    [res EXCEPT
        !.text = <<"=","=","="," ","S","Q","L"," ","F","o","u","n","d","r","y"," ","A","g","e","n","t"," ","=","=","=","\n">> \o sql_extracted.text
                 \o <<"\n","\n","=","=","="," ","D","a","t","a","b","r","i","c","k","s"," ","A","g","e","n","t"," ","=","=","=","\n">> \o databricks_extracted.text,
        !.images = sql_extracted.images \o databricks_extracted.images,
        !.agent_responses = DictSet(DictSet(@, "sql", sql_extracted.text),
                                    "databricks", databricks_extracted.text)]

\* faulty variant: the pipeline keeps the images of the SQL payload too
chart_workflow_result_all_images(res, sql_extracted, python_extracted) ==
    [res EXCEPT
        !.text = <<"S","Q","L"," ","D","a","t","a",":","\n">> \o sql_extracted.text
                 \o <<"\n","\n","V","i","s","u","a","l","i","z","a","t","i","o","n",":","\n">> \o python_extracted.text,
        !.images = sql_extracted.images \o python_extracted.images,
        !.agent_responses = DictSet(DictSet(@, "sql", sql_extracted.text),
                                    "python", python_extracted.text)]

\* "Combine results" of _run_chart_workflow
chart_workflow_result(res, sql_extracted, python_extracted) ==
    [res EXCEPT
        !.text = <<"S","Q","L"," ","D","a","t","a",":","\n">> \o sql_extracted.text
                 \o <<"\n","\n","V","i","s","u","a","l","i","z","a","t","i","o","n",":","\n">> \o python_extracted.text,
        !.images = python_extracted.images,
        !.agent_responses = DictSet(DictSet(@, "sql", sql_extracted.text),
                                    "python", python_extracted.text)]

\* faulty variant: the Databricks answer is left out of agent_responses
three_agent_result_no_databricks(res, combined_data, sql_extracted, databricks_extracted, python_extracted) ==
    [res EXCEPT
        !.text = combined_data \o <<"\n","\n","V","i","s","u","a","l","i","z","a","t","i","o","n",":","\n">> \o python_extracted.text,
        !.images = python_extracted.images,
        !.agent_responses = DictSet(DictSet(@, "sql", sql_extracted.text),
                                    "python", python_extracted.text)]

\* "Combine all results" of _run_three_agent_workflow
three_agent_result(res, combined_data, sql_extracted, databricks_extracted, python_extracted) ==
    [res EXCEPT
        !.text = combined_data \o <<"\n","\n","V","i","s","u","a","l","i","z","a","t","i","o","n",":","\n">> \o python_extracted.text,
        !.images = python_extracted.images,
        !.agent_responses =
            DictSet(DictSet(DictSet(@, "sql", sql_extracted.text),
                            "databricks", databricks_extracted.text),
                    "python", python_extracted.text)]

\* faulty variant: the exception is swallowed without being recorded
run_except_swallow(res, error) == [result |-> res, pc |-> "done"]

\* _run_direct_agent after its await
direct_agent_result(res, agent_name, extracted) ==
    [res EXCEPT !.text = extracted.text,
                !.images = extracted.images,
                !.agent_responses = DictSet(@, agent_name, extracted.text)]

\* faulty variant: the failed strategy is run again
run_except_retry(res, error) == [result |-> res, pc |-> "idle"]

\* faulty variant: no except clause, the exception reaches the caller of run
run_except_reraise(res, error) == [result |-> res, pc |-> "propagated"]

\* except Exception as e: result["error"] = str(e); then return result
run_except(res, error) == [result |-> DictSet(res, "error", error), pc |-> "done"]

Init ==
    /\ user_query \in RunQueries
    /\ routing_info = NoRouting
    /\ processed_query = <<>>
    /\ result = NewResult(<<>>, NoRouting)
    /\ pc = "idle"
    /\ calls = [a \in Agents |-> NoCall]
    /\ frame = InitialFrame
    /\ connected = [a \in Agents |-> "connected"]
    /\ other = NoOther
    /\ extraction = NoExtraction
    /\ executor = NoExecutor

\* run(user_query) up to the first await of the selected workflow
RunStart ==
    /\ pc = "idle"
    /\ LET routing == analyze_query(user_query)
           processed == preprocess_query(user_query, routing)
       IN  /\ routing_info' = routing
           /\ processed_query' = processed
           /\ result' = NewResult(user_query, routing)
           /\ CASE routing.strategy = "three_agent_workflow" ->
                     /\ calls' = gather_calls(calls, processed)
                     /\ pc' = "three_gather"
                     /\ frame' = [frame EXCEPT !.original_query = user_query]
                [] routing.strategy = "sequential_chart" ->
                     /\ calls' = chart_workflow_start(calls, processed, user_query)
                     /\ pc' = "chart_sql"
                     /\ frame' = [frame EXCEPT !.original_query = user_query,
                                               !.awaiting = "sql"]
                [] routing.strategy = "concurrent_data" ->
                     /\ calls' = gather_calls(calls, data_workflow_query(user_query, processed))
                     /\ pc' = "data_gather"
                     /\ frame' = frame
                [] routing.strategy = "direct_databricks" ->
                     /\ calls' = await_call(calls, "databricks", user_query)
                     /\ pc' = "direct"
                     /\ frame' = [frame EXCEPT !.agent_name = "databricks",
                                               !.awaiting = "databricks"]
                [] routing.strategy = "direct_sql" ->
                     /\ calls' = await_call(calls, "sql", user_query)
                     /\ pc' = "direct"
                     /\ frame' = [frame EXCEPT !.agent_name = "sql", !.awaiting = "sql"]
    /\ UNCHANGED <<user_query, connected, other, extraction, executor>>

\* the event loop runs the first step of a task gather created; tasks start
\* in the order gather received them
AgentStart(a) ==
    /\ calls[a].state = "scheduled"
    /\ a = "databricks" => calls["sql"].state # "scheduled"
    /\ calls' = [calls EXCEPT ![a].state = "inflight"]
    /\ UNCHANGED <<user_query, routing_info, processed_query, result, pc, frame, connected, other, extraction, executor>>

InGather == pc \in {"three_gather", "data_gather"}

\* the remote agent answers; the event loop handles the answer after it has
\* run the first step of every task that is ready
AgentReturn(a, r) ==
    /\ calls[a].state = "inflight"
    /\ \A b \in Agents : calls[b].state # "scheduled"
    /\ calls' = [calls EXCEPT ![a].state = "returned", ![a].response = r]
    /\ frame' = [frame EXCEPT !.done_order = Append(@, a)]
    /\ UNCHANGED <<user_query, routing_info, processed_query, result, pc, connected, other, extraction, executor>>

\* the call fails; gather keeps the first exception of its children
AgentRaise(a, e) ==
    /\ calls[a].state = "inflight"
    /\ calls' = [calls EXCEPT ![a].state = "raised", ![a].error = e]
    /\ frame' = [frame EXCEPT
                    !.done_order = Append(@, a),
                    !.gather_exc = IF InGather /\ ~@.raised
                                   THEN [raised |-> TRUE, error |-> e] ELSE @]
    /\ UNCHANGED <<user_query, routing_info, processed_query, result, pc, connected, other, extraction, executor>>

\* an exception leaves the workflow and is caught by run's except clause
Fail(error) ==
    /\ result' = run_except(result, error).result
    /\ pc' = run_except(result, error).pc
    /\ UNCHANGED <<calls, frame>>

\* "await asyncio.gather(...)" resumes: with the first exception of a child,
\* or with both responses
ResumeGather ==
    /\ InGather
    /\ \A a \in {"sql", "databricks"} : calls[a].state \notin {"none", "scheduled"}
    /\ IF frame.gather_exc.raised
       THEN Fail(frame.gather_exc.error)
       ELSE /\ calls["sql"].state = "returned"
            /\ calls["databricks"].state = "returned"
            /\ LET sql_extracted == extract_from_a2a_response(calls["sql"].response)
                   databricks_extracted ==
                       extract_from_a2a_response(calls["databricks"].response)
               IN  IF pc = "data_gather"
                   THEN /\ result' = data_workflow_result(result, sql_extracted,
                                                          databricks_extracted)
                        /\ pc' = "done"
                        /\ UNCHANGED <<calls, frame>>
                   ELSE LET combined_data ==
                                three_agent_combined_data(sql_extracted.text,
                                                          databricks_extracted.text)
                        IN  /\ calls' = await_call(calls, "python",
                                           three_agent_viz_prompt(combined_data,
                                               frame.original_query, processed_query))
                            /\ frame' = [frame EXCEPT
                                            !.sql_extracted = sql_extracted,
                                            !.databricks_extracted = databricks_extracted,
                                            !.combined_data = combined_data,
                                            !.awaiting = "python"]
                            /\ pc' = "three_python"
                            /\ UNCHANGED result
    /\ UNCHANGED <<user_query, routing_info, processed_query, connected, other, extraction, executor>>

\* "await agent.run(...)" resumes: with the exception of the call or its response
ResumeAwait ==
    /\ pc \in {"chart_sql", "chart_python", "three_python", "direct"}
    /\ calls[frame.awaiting].state \in {"returned", "raised"}
    /\ IF calls[frame.awaiting].state = "raised"
       THEN Fail(calls[frame.awaiting].error)
       ELSE LET extracted == extract_from_a2a_response(calls[frame.awaiting].response)
            IN  CASE pc = "chart_sql" ->
                       /\ calls' = await_call(calls, "python",
                                      chart_viz_prompt(extracted.text, frame.original_query))
                       /\ frame' = [frame EXCEPT !.sql_extracted = extracted,
                                                 !.awaiting = "python"]
                       /\ pc' = "chart_python"
                       /\ UNCHANGED result
                  [] pc = "chart_python" ->
                       /\ result' = chart_workflow_result(result, frame.sql_extracted,
                                                           extracted)
                       /\ pc' = "done"
                       /\ UNCHANGED <<calls, frame>>
                  [] pc = "three_python" ->
                       /\ result' = three_agent_result(result, frame.combined_data,
                                        frame.sql_extracted, frame.databricks_extracted,
                                        extracted)
                       /\ pc' = "done"
                       /\ UNCHANGED <<calls, frame>>
                  [] pc = "direct" ->
                       /\ result' = direct_agent_result(result, frame.agent_name, extracted)
                       /\ pc' = "done"
                       /\ UNCHANGED <<calls, frame>>
    /\ UNCHANGED <<user_query, routing_info, processed_query, connected, other, extraction, executor>>

Next ==
    \/ RunStart
    \/ \E a \in Agents : AgentStart(a)
    \/ \E a \in Agents : \E r \in Responses(a) : AgentReturn(a, r)
    \/ \E a \in Agents : \E e \in AgentErrors : AgentRaise(a, e)
    \/ ResumeGather
    \/ ResumeAwait

Spec == Init /\ [][Next]_vars

----------------------------------------------------------------------------
(* The classifier and the preprocessor on their own, over the larger query set *)

InitClassify ==
    /\ user_query \in Queries
    /\ routing_info = NoRouting
    /\ processed_query = <<>>
    /\ result = NewResult(<<>>, NoRouting)
    /\ pc = "idle"
    /\ calls = [a \in Agents |-> NoCall]
    /\ frame = InitialFrame
    /\ connected = [a \in Agents |-> "connected"]
    /\ other = NoOther
    /\ extraction = NoExtraction
    /\ executor = NoExecutor

\* routing_info = self._analyze_query(user_query)
AnalyzeQuery ==
    /\ pc = "idle"
    /\ routing_info' = analyze_query(user_query)
    /\ pc' = "analyzed"
    /\ UNCHANGED <<user_query, processed_query, result, calls, frame, connected, other, extraction, executor>>

\* processed_query = self._preprocess_query(user_query, routing_info)
PreprocessQuery ==
    /\ pc = "analyzed"
    /\ processed_query' = preprocess_query(user_query, routing_info)
    /\ pc' = "preprocessed"
    /\ UNCHANGED <<user_query, routing_info, result, calls, frame, connected, other, extraction, executor>>

NextClassify == AnalyzeQuery \/ PreprocessQuery

SpecClassify == InitClassify /\ [][NextClassify]_vars

----------------------------------------------------------------------------
(* The preprocessor over queries made of visualization phrasing *)

\* model bound: the number of fragments of a generated preprocessor input
MaxPreFrags == 3

\* visualization phrases, their pieces, whitespace and plain words
PreFragments ==
    { <<"a","s"," ","a"," ">>, <<"a","s"," ","a"," ","c","h","a","r","t">>, <<"c","h","a","r","t">>, <<" ">>, <<"v","i","s","u","a","l","i","z","e">>, <<"v","i","s","u","a","l","i","z","a","t","i","o","n">>,
      <<"b","a","r"," ">>, <<"b","r","i","d","g","e">>, <<"p","l","o","t"," ","t","h","i","s">>, <<"\t">> }

RECURSIVE QueriesFrom(_, _)
QueriesFrom(frags, n) ==
    IF n = 0 THEN {<<>>}
    ELSE LET shorter == QueriesFrom(frags, n - 1)
         IN  shorter \cup { q \o f : q \in shorter, f \in frags }

PreQueries == ExampleQueries \cup QueriesFrom(PreFragments, MaxPreFrags)

InitPreprocess ==
    /\ user_query \in PreQueries
    /\ routing_info = NoRouting
    /\ processed_query = <<>>
    /\ result = NewResult(<<>>, NoRouting)
    /\ pc = "idle"
    /\ calls = [a \in Agents |-> NoCall]
    /\ frame = InitialFrame
    /\ connected = [a \in Agents |-> "connected"]
    /\ other = NoOther
    /\ extraction = NoExtraction
    /\ executor = NoExecutor

SpecPreprocess == InitPreprocess /\ [][NextClassify]_vars

----------------------------------------------------------------------------
(* The orchestrator as the UI uses it (streamlit_app_v1.run_query):         *)
(* "async with SmartOrchestrator() as orchestrator: await orchestrator.run" *)

\* _initialize_agents connects the agents in this order
ConnectOrder == <<"sql", "databricks", "python">>

\* get_agent_card answers, fails, or exceeds the timeout of wait_for
HandshakeOutcomes == {"connected", "failed", "timeout"}

InitLifecycle ==
    /\ user_query \in ExampleQueries
    /\ routing_info = NoRouting
    /\ processed_query = <<>>
    /\ result = NewResult(<<>>, NoRouting)
    /\ pc = "new"
    /\ calls = [a \in Agents |-> NoCall]
    /\ frame = InitialFrame
    /\ connected = [a \in Agents |-> "pending"]
    /\ other = NoOther
    /\ extraction = NoExtraction
    /\ executor = NoExecutor

\* __aenter__: _create_a2a_agent for the i-th agent. A failed or timed out
\* handshake raises RuntimeError, which __aenter__ re-raises after closing the
\* http client: it leaves the "async with" of run_query and run is never
\* called. After the last agent, __aenter__ returns and run_query calls run.
CreateAgent(i, outcome) ==
    /\ pc = "new"
    /\ connected[ConnectOrder[i]] = "pending"
    /\ \A j \in 1..(i - 1) : connected[ConnectOrder[j]] = "connected"
    /\ connected' = [connected EXCEPT ![ConnectOrder[i]] = outcome]
    /\ pc' = IF outcome # "connected" THEN "enter_failed"
             ELSE IF i = Len(ConnectOrder) THEN "idle"
             ELSE "new"
    /\ UNCHANGED <<user_query, routing_info, processed_query, result, calls, frame,
                   other, extraction, executor>>

NextLifecycle ==
    \/ \E i \in DOMAIN ConnectOrder : \E o \in HandshakeOutcomes : CreateAgent(i, o)
    \/ Next

SpecLifecycle == InitLifecycle /\ [][NextLifecycle]_vars


----------------------------------------------------------------------------
(* Two run coroutines on one orchestrator: the event loop runs one of them
   up to its next await, then either of them *)

ConcurrentQueries ==
    { <<"b","r","i","d","g","e"," ","1","0","0","1"," ","a","s"," ","a"," ","c","h","a","r","t">>, <<"b","r","i","d","g","e"," ","1","0","0","1"," ","g","d","o","t">> }

\* the local variables of the run coroutine the event loop is running
Locals ==
    [user_query |-> user_query, routing_info |-> routing_info,
     processed_query |-> processed_query, result |-> result, pc |-> pc,
     calls |-> calls, frame |-> frame]

\* faulty variant: the result dict is kept on the orchestrator object
resumed_result_on_self(current, own) == current

\* run: "result = {...}" is a local of the coroutine; a resumed coroutine
\* finds its own dict
resumed_result(current, own) == own

InitConcurrent ==
    /\ user_query \in ConcurrentQueries
    /\ routing_info = NoRouting
    /\ processed_query = <<>>
    /\ result = NewResult(<<>>, NoRouting)
    /\ pc = "idle"
    /\ calls = [a \in Agents |-> NoCall]
    /\ frame = InitialFrame
    /\ connected = [a \in Agents |-> "connected"]
    /\ other \in { [user_query |-> q, routing_info |-> NoRouting, processed_query |-> <<>>,
                     result |-> NewResult(<<>>, NoRouting), pc |-> "idle",
                     calls |-> [a \in Agents |-> NoCall], frame |-> InitialFrame] :
                    q \in ConcurrentQueries }
    /\ extraction = NoExtraction
    /\ executor = NoExecutor

\* the running coroutine is suspended at an await and the event loop resumes
\* the other one
SwitchTask ==
    /\ other.pc # "absent"
    /\ user_query' = other.user_query
    /\ routing_info' = other.routing_info
    /\ processed_query' = other.processed_query
    /\ result' = resumed_result(result, other.result)
    /\ pc' = other.pc
    /\ calls' = other.calls
    /\ frame' = other.frame
    /\ other' = Locals
    /\ UNCHANGED <<connected, extraction, executor>>

NextConcurrent == SwitchTask \/ Next

SpecConcurrent == InitConcurrent /\ [][NextConcurrent]_vars

----------------------------------------------------------------------------
(* The extractors on their own, over response shapes with absent, empty and
   unset fields *)

\* model bound: the number of parts of a status message
MaxParts == 2

\* parts: complete ones, and ones with a field absent, empty or None
PartShapes ==
    { TextPart(<<"S">>),
      TextPart(<<>>),
      TextPart(None),
      [kind |-> "text", text |-> <<"S">>],
      [root |-> NoneObject],
      [root |-> [kind |-> "data"]],
      FilePart(<<"Q","U","I","=">>, <<"i","m","a","g","e","/","j","p","e","g">>, <<"a",".","j","p","g">>),
      FilePart(<<"Q","U","I","=">>, None, None),
      FilePart(<<"Q","U","J","D">>, <<>>, <<>>),
      FilePart(<<"Q","U","J">>, <<"i","m","a","g","e","/","p","n","g">>, <<"c","u","t",".","p","n","g">>),
      FilePart(<<>>, <<"i","m","a","g","e","/","p","n","g">>, <<"e","m","p","t","y",".","p","n","g">>),
      FilePart(None, <<"i","m","a","g","e","/","p","n","g">>, <<"n","o","n","e",".","p","n","g">>),
      [root |-> [kind |-> "file", file |-> [bytes |-> <<"Q","0","Q","=">>]]],
      [root |-> [kind |-> "file", file |-> [uri |-> <<"h","t","t","p",":","/","/","h","/","a",".","p","n","g">>]]],
      [root |-> [kind |-> "file", file |-> NoneObject]] }

RECURSIVE PartLists(_)
PartLists(n) ==
    IF n = 0 THEN {<<>>}
    ELSE LET shorter == PartLists(n - 1)
         IN  shorter \cup { Append(ps, p) : ps \in shorter, p \in PartShapes }

MessageShapes ==
    { [parts |-> ps] : ps \in PartLists(MaxParts) } \cup { [role |-> "agent"], NoneObject }

StatusShapes ==
    { [state |-> "completed", message |-> m] : m \in MessageShapes }
    \cup { [state |-> "completed"], NoneObject }

\* the status updates the task went through before its final status
HistoryShapes ==
    { <<>>,
      <<[parts |-> <<TextPart(<<"S">>)>>]>>,
      <<[parts |-> <<FilePart(<<"i","V","B","O">>, <<"i","m","a","g","e","/","p","n","g">>, <<"v","i","s","u","a","l","i","z","a","t","i","o","n","_","1",".","p","n","g">>)>>]>>,
      <<[parts |-> <<TextPart(<<"w","o","r","k","i","n","g">>)>>], [role |-> "agent"],
        [parts |-> <<FilePart(<<"i","V","B","O">>, <<"i","m","a","g","e","/","p","n","g">>, <<"v","i","s","u","a","l","i","z","a","t","i","o","n","_","1",".","p","n","g">>)>>]>> }

TaskShapes ==
    { [status |-> s] : s \in StatusShapes }
    \cup { [status |-> s, history |-> h] : s \in StatusShapes, h \in HistoryShapes }
    \cup { [id |-> "t"] }

\* responses that also carry the messages of a workflow
WorkflowShapes ==
    { [messages |-> <<[text |-> <<"S">>]>>, raw_representation |-> <<Task(<<TextPart(<<"S">>)>>)>>],
      [messages |-> <<[text |-> <<"S">>, content |-> <<[text |-> <<"S">>], [text |-> <<"V">>]>>]>>],
      [messages |-> <<[text |-> <<"S">>], [content |-> <<[text |-> <<"S">>]>>]>>],
      [messages |-> <<[text |-> None, content |-> <<>>]>>, text |-> <<"S">>],
      [messages |-> <<>>, raw_representation |-> <<>>, text |-> None] }

ExtractInputs ==
    { Response(<<task>>) : task \in TaskShapes }
    \cup { Response(<<Task(<<TextPart(<<"S">>)>>), task>>) :
             task \in { Task(<<TextPart(<<"S">>)>>), Task(<<TextPart(<<"V">>)>>),
                        Task(<<FilePart(<<"Q","U","I","=">>, <<"i","m","a","g","e","/","j","p","e","g">>, <<"a",".","j","p","g">>)>>) } }
    \cup { Response(<<>>), [text |-> <<"S">>] }
    \cup WorkflowShapes

InitExtract ==
    /\ user_query = <<>>
    /\ routing_info = NoRouting
    /\ processed_query = <<>>
    /\ result = NewResult(<<>>, NoRouting)
    /\ pc = "idle"
    /\ calls = [a \in Agents |-> NoCall]
    /\ frame = InitialFrame
    /\ connected = [a \in Agents |-> "connected"]
    /\ other = NoOther
    /\ extraction \in { [extractor |-> "pending", response |-> r] : r \in ExtractInputs }
    /\ executor = NoExecutor

Extracted(name, response, raised, text_parts, payload) ==
    [extractor |-> name, response |-> response, raised |-> raised,
     text_parts |-> text_parts, text |-> payload.text, images |-> payload.images]

\* extracted = self._extract_from_a2a_response(response)
ExtractA2A ==
    /\ extraction.extractor = "pending"
    /\ LET response == extraction.response
           tasks == IF Has(response, "raw_representation") THEN response.raw_representation
                    ELSE <<>>
       IN  extraction' = Extracted("a2a", response, FALSE,
                             ExtractTasks(tasks, 1, [text_parts |-> <<>>, images |-> <<>>]).text_parts,
                             extract_from_a2a_response(response))
    /\ UNCHANGED <<user_query, routing_info, processed_query, result, pc, calls, frame,
                   connected, other, executor>>

\* self._extract_from_response(response)
ExtractWorkflow ==
    /\ extraction.extractor = "pending"
    /\ LET response == extraction.response
       IN  extraction' = Extracted("workflow", response, FALSE,
                             extract_from_response_parts(response).text_parts,
                             extract_from_response(response))
    /\ UNCHANGED <<user_query, routing_info, processed_query, result, pc, calls, frame,
                   connected, other, executor>>

\* create_visualization after "response = await python_agent.run(viz_query)"
ExtractVisualization ==
    /\ extraction.extractor = "pending"
    /\ LET response == extraction.response
           out == create_visualization(response)
       IN  extraction' = Extracted("visualization", response, out.raised,
                             IF out.raised THEN <<>>
                             ELSE create_visualization_parts(response).text_parts,
                             out)
    /\ UNCHANGED <<user_query, routing_info, processed_query, result, pc, calls, frame,
                   connected, other, executor>>

NextExtract == ExtractA2A \/ ExtractWorkflow \/ ExtractVisualization

SpecExtract == InitExtract /\ [][NextExtract]_vars

----------------------------------------------------------------------------
(* The agent executors: PythonToolAgentExecutor, SQLFoundryAgentExecutor and
   DatabricksAgentExecutor serving one A2A task, with cancel requests *)

ExecutorKinds == {"python", "sql", "databricks"}

\* model bound: the number of cancel requests for the task
MaxCancels == 1

\* sql_foundry_agent.run_conversation: max_iterations
max_iterations == 60

\* one status update on the event queue: who emitted it, the task state, the
\* kind of part of its message, the text of a text part
Update(by, state, part, text) == [by |-> by, state |-> state, part |-> part, text |-> text]

\* what the model or the tool behind an agent does with one request
PythonInvocations ==
    { [raised |-> FALSE, text |-> <<"V">>, images |-> <<[data |-> <<"i","V","B","O">>, mime_type |-> <<"i","m","a","g","e","/","p","n","g">>]>>],
      [raised |-> FALSE, text |-> <<"V">>,
       images |-> <<[data |-> <<"i","V","B","O">>, mime_type |-> <<"i","m","a","g","e","/","p","n","g">>], [data |-> <<"Q","U","I","=">>]>>],
      [raised |-> FALSE, text |-> <<>>, images |-> <<>>],
      [raised |-> TRUE, error |-> <<"b","o","o","m">>] }

DatabricksInvocations ==
    { [raised |-> FALSE, text |-> <<"C">>],
      [raised |-> FALSE, text |-> <<>>],
      [raised |-> TRUE, error |-> <<"b","o","o","m">>] }

\* a Foundry run: its status when polling ends, the polls made, the assistant
\* messages of the thread; raised is an exception of the Azure SDK
FoundryRuns ==
    { [raised |-> FALSE, status |-> "completed", iterations |-> 1, responses |-> <<<<"S">>>>],
      [raised |-> FALSE, status |-> "completed", iterations |-> 1, responses |-> <<<<"a">>, <<"b">>>>],
      [raised |-> FALSE, status |-> "completed", iterations |-> 1, responses |-> <<>>],
      [raised |-> FALSE, status |-> "failed", iterations |-> 1, last_error |-> <<"b","a","d">>],
      [raised |-> FALSE, status |-> "in_progress", iterations |-> max_iterations],
      [raised |-> TRUE, error |-> <<"b","o","o","m">>] }

Invocations(kind) ==
    CASE kind = "python" -> PythonInvocations
      [] kind = "sql" -> FoundryRuns
      [] OTHER -> DatabricksInvocations

\* the processing behind the agent did not succeed
UnderlyingFailed(kind, inv) ==
    \/ inv.raised
    \/ kind = "sql" /\ (inv.status = "failed" \/ inv.iterations >= max_iterations)

\* PythonToolAgent.process_message: an exception of the invocation becomes a
\* response with an error text
python_process_message(inv) ==
    IF inv.raised
    THEN [raised |-> FALSE, text |-> <<"E","r","r","o","r",":"," ">> \o inv.error, images |-> <<>>]
    ELSE [raised |-> FALSE, text |-> inv.text, images |-> inv.images]

\* DatabricksAgent.process_message
databricks_process_message(inv) ==
    IF inv.raised
    THEN [raised |-> FALSE, text |-> <<"E","r","r","o","r",":"," ">> \o inv.error]
    ELSE [raised |-> FALSE, text |-> inv.text]

\* SQLFoundryAgent.run_conversation after its polling loop; an exception of
\* the SDK is not caught
run_conversation(run) ==
    IF run.raised THEN [raised |-> TRUE, error |-> run.error]
    ELSE IF run.iterations >= max_iterations
    THEN [raised |-> FALSE,
          responses |-> <<<<"E","r","r","o","r",":"," ","S","Q","L"," ","q","u","e","r","y"," ","e","x","e","c","u","t","i","o","n"," ","t","i","m","e","d"," ","o","u","t","."," ","P","l","e","a","s","e"," ","t","r","y"," ","a"," ","s","i","m","p","l","e","r"," ","q","u","e","r","y",".">>>>]
    ELSE IF run.status = "failed"
    THEN [raised |-> FALSE, responses |-> <<<<"E","r","r","o","r"," ","e","x","e","c","u","t","i","n","g"," ","S","Q","L"," ","q","u","e","r","y",":"," ">> \o run.last_error>>]
    ELSE [raised |-> FALSE,
          responses |-> IF run.responses # <<>> THEN run.responses
                        ELSE <<<<"N","o"," ","S","Q","L"," ","r","e","s","u","l","t","s"," ","r","e","c","e","i","v","e","d"," ","f","r","o","m"," ","A","z","u","r","e"," ","A","I"," ","F","o","u","n","d","r","y"," ","a","g","e","n","t">>>>]

RECURSIVE WorkingTexts(_, _)
WorkingTexts(texts, i) ==
    IF i > Len(texts) THEN <<>>
    ELSE <<Update("execute", "working", "text", texts[i])>> \o WorkingTexts(texts, i + 1)

RECURSIVE WorkingImages(_, _)
WorkingImages(images, i) ==
    IF i > Len(images) THEN <<>>
    ELSE <<Update("execute", "working", "image", <<>>)>> \o WorkingImages(images, i + 1)

FailedUpdate(error) == Update("execute", "failed", "text", <<"E","r","r","o","r",":"," ">> \o error)

\* faulty variant: the Python executor completes the task before it sends the images
python_updates_complete_first(response) ==
    (IF response.text # <<>> THEN WorkingTexts(<<response.text>>, 1) ELSE <<>>)
    \o <<Update("execute", "completed", "text", response.text)>>
    \o WorkingImages(response.images, 1)

\* PythonToolAgentExecutor._process_request after process_message: the
\* updates it sends, in order
python_updates(response) ==
    (IF response.text # <<>> THEN WorkingTexts(<<response.text>>, 1) ELSE <<>>)
    \o WorkingImages(response.images, 1)
    \o <<Update("execute", "completed", "text",
                IF response.text # <<>> THEN response.text ELSE <<"P","r","o","c","e","s","s","i","n","g"," ","c","o","m","p","l","e","t","e","d",".">>)>>

\* DatabricksAgentExecutor._process_request after process_message
databricks_updates(response) ==
    (IF response.text # <<>> THEN WorkingTexts(<<response.text>>, 1) ELSE <<>>)
    \o <<Update("execute", "completed", "text",
                IF response.text # <<>> THEN response.text ELSE <<"Q","u","e","r","y"," ","c","o","m","p","l","e","t","e","d",".">>)>>

\* SQLFoundryAgentExecutor._process_request after run_conversation
sql_updates(answer) ==
    IF answer.raised THEN <<FailedUpdate(answer.error)>>
    ELSE WorkingTexts(answer.responses, 1)
         \o <<Update("execute", "completed", "text",
                     IF answer.responses # <<>> THEN answer.responses[Len(answer.responses)]
                     ELSE <<"S","Q","L"," ","q","u","e","r","y"," ","c","o","m","p","l","e","t","e","d",".">>)>>

\* the updates _process_request sends once the agent has answered
UpdatesAfter(kind, inv) ==
    CASE kind = "python" -> python_updates(python_process_message(inv))
      [] kind = "sql" -> sql_updates(run_conversation(inv))
      [] OTHER -> databricks_updates(databricks_process_message(inv))

\* the first working message of _process_request
FirstMessage(kind) ==
    CASE kind = "python" -> <<"P","r","o","c","e","s","s","i","n","g"," ","y","o","u","r"," ","r","e","q","u","e","s","t",".",".",".">>
      [] kind = "sql" -> <<"P","r","o","c","e","s","s","i","n","g"," ","y","o","u","r"," ","S","Q","L"," ","q","u","e","r","y",".",".",".">>
      [] OTHER -> <<"Q","u","e","r","y","i","n","g"," ","D","a","t","a","b","r","i","c","k","s",".",".",".">>

InitExecutor ==
    /\ user_query = <<>>
    /\ routing_info = NoRouting
    /\ processed_query = <<>>
    /\ result = NewResult(<<>>, NoRouting)
    /\ pc = "idle"
    /\ calls = [a \in Agents |-> NoCall]
    /\ frame = InitialFrame
    /\ connected = [a \in Agents |-> "connected"]
    /\ other = NoOther
    /\ extraction = NoExtraction
    /\ executor \in { [kind |-> k, pc |-> "execute", current_task |-> c, events |-> <<>>,
                        todo |-> <<>>, cancels |-> 0, active |-> FALSE, underlying |-> "none"] :
                       k \in ExecutorKinds, c \in BOOLEAN }

Unused == <<user_query, routing_info, processed_query, result, pc, calls, frame,
            connected, other, extraction>>

\* execute: "if not context.current_task: await updater.submit()"
ExecuteSubmit ==
    /\ executor.pc = "execute"
    /\ executor' = IF executor.current_task
                   THEN [executor EXCEPT !.pc = "start_work"]
                   ELSE [executor EXCEPT
                           !.pc = "start_work",
                           !.events = Append(@, Update("execute", "submitted", "none", <<>>))]
    /\ UNCHANGED Unused

\* execute: "await updater.start_work()", then the context is tracked
ExecuteStartWork ==
    /\ executor.pc = "start_work"
    /\ executor' = [executor EXCEPT
                      !.pc = "process_request",
                      !.events = Append(@, Update("execute", "working", "none", <<>>)),
                      !.active = (executor.kind # "sql")]
    /\ UNCHANGED Unused

\* _process_request up to "await agent.process_message(...)": the agent (and,
\* for SQL, the thread) is obtained, which may raise, and the first working
\* message is sent
ProcessRequestBegin(setup_raises) ==
    /\ executor.pc = "process_request"
    /\ executor' = IF setup_raises
                   THEN [executor EXCEPT !.pc = "updates", !.todo = <<FailedUpdate(<<"s","e","t","u","p">>)>>]
                   ELSE [executor EXCEPT
                           !.pc = "agent",
                           !.events = Append(@, Update("execute", "working", "text",
                                                       FirstMessage(executor.kind)))]
    /\ UNCHANGED Unused

\* the agent answers the request
AgentAnswers(kind, inv) ==
    /\ executor.pc = "agent"
    /\ executor.kind = kind
    /\ executor' = [executor EXCEPT
                      !.pc = "updates",
                      !.todo = UpdatesAfter(executor.kind, inv),
                      !.underlying = IF UnderlyingFailed(executor.kind, inv)
                                     THEN "failed" ELSE "ok"]
    /\ UNCHANGED Unused

\* one "await task_updater.update_status / complete / failed"; after the
\* last one _process_request returns and execute drops the context
SendUpdate ==
    /\ executor.pc = "updates"
    /\ executor.todo # <<>>
    /\ executor' = [executor EXCEPT
                      !.events = Append(@, Head(executor.todo)),
                      !.todo = Tail(@),
                      !.pc = IF Len(executor.todo) = 1 THEN "returned" ELSE "updates",
                      !.active = IF Len(executor.todo) = 1 THEN FALSE ELSE @]
    /\ UNCHANGED Unused

CancelText(kind) ==
    IF kind = "sql" THEN <<"S","Q","L"," ","t","a","s","k"," ","c","a","n","c","e","l","l","e","d"," ","b","y"," ","u","s","e","r">> ELSE <<"T","a","s","k"," ","c","a","n","c","e","l","l","e","d"," ","b","y"," ","u","s","e","r">>

\* faulty variant: cancel also stops the execute call of the task
cancel_aborting(ex) ==
    [ex EXCEPT !.events = Append(@, Update("cancel", "failed", "text", CancelText(ex.kind))),
               !.active = FALSE,
               !.cancels = @ + 1,
               !.pc = "returned",
               !.todo = <<>>]

\* cancel: the context is dropped and a failed status is sent
cancel(ex) ==
    [ex EXCEPT !.events = Append(@, Update("cancel", "failed", "text", CancelText(ex.kind))),
               !.active = FALSE,
               !.cancels = @ + 1]

\* a cancel request arrives, at any await of execute, before it or after it
Cancel ==
    /\ executor.pc # "absent"
    /\ executor.cancels < MaxCancels
    /\ executor' = cancel(executor)
    /\ UNCHANGED Unused

NextExecutor ==
    \/ ExecuteSubmit
    \/ ExecuteStartWork
    \/ \E setup_raises \in BOOLEAN : ProcessRequestBegin(setup_raises)
    \/ \E kind \in ExecutorKinds : \E inv \in Invocations(kind) : AgentAnswers(kind, inv)
    \/ SendUpdate
    \/ Cancel

SpecExecutor == InitExecutor /\ [][NextExecutor]_vars

(***************************************************************************)
(* Two execute calls of one executor object for the same context id.  The  *)
(* call in focus is executor, the suspended one is other; the field active *)
(* (the context id is in self._active_contexts) belongs to the object and  *)
(* is kept in executor.                                                    *)
(***************************************************************************)
ContextKinds == {"python", "databricks"}

InitContexts ==
    /\ user_query = <<>>
    /\ routing_info = NoRouting
    /\ processed_query = <<>>
    /\ result = NewResult(<<>>, NoRouting)
    /\ pc = "idle"
    /\ calls = [a \in Agents |-> NoCall]
    /\ frame = InitialFrame
    /\ connected = [a \in Agents |-> "connected"]
    /\ extraction = NoExtraction
    /\ \E k \in ContextKinds :
          /\ executor = [kind |-> k, pc |-> "execute", current_task |-> FALSE, events |-> <<>>,
                         todo |-> <<>>, cancels |-> 0, active |-> FALSE, underlying |-> "none"]
          /\ other = [kind |-> k, pc |-> "execute", current_task |-> TRUE, events |-> <<>>,
                      todo |-> <<>>, cancels |-> 0, active |-> FALSE, underlying |-> "none"]

\* the event loop resumes the other execute call at an await
SwitchExecute ==
    /\ other.pc # "absent"
    /\ executor' = [other EXCEPT !.active = executor.active]
    /\ other' = executor
    /\ UNCHANGED <<user_query, routing_info, processed_query, result, pc, calls, frame,
                   connected, extraction>>

\* cleanup: "self._active_contexts.clear()"
Cleanup ==
    /\ executor.kind \in ContextKinds
    /\ executor' = [executor EXCEPT !.active = FALSE]
    /\ UNCHANGED Unused

NextContexts ==
    \/ SwitchExecute
    \/ Cleanup
    \/ NextExecutor

SpecContexts == InitContexts /\ [][NextContexts]_vars

(***************************************************************************)
(* The threads of the SQL executor.  Each request is an execute call in an *)
(* asyncio task of its own, whose name is the number of the request.  In   *)
(* executor, active_threads is self._active_threads of the executor and    *)
(* threads is self.threads of its SQLFoundryAgent; 0 stands for a key that *)
(* is not in the dict.  The Foundry service numbers the threads it makes:  *)
(* created is the number of threads made so far.                           *)
(***************************************************************************)
MaxRequests == 3

ThreadContexts == {"ctx-1", "ctx-2"}

\* SQLFoundryAgent.create_thread(): the key is "thread_" + the task's name
create_thread(ex, task_name) ==
    IF ex.threads[task_name] # 0
    THEN [ex |-> ex, id |-> ex.threads[task_name]]
    ELSE [ex |-> [ex EXCEPT !.created = @ + 1, !.threads[task_name] = ex.created + 1],
          id |-> ex.created + 1]

\* faulty variant: a thread is made and bound whether or not the context has one
get_or_create_thread_rebinding(ex, context_id, task_name) ==
    LET thread_data == create_thread(ex, task_name)
    IN  [thread_data.ex EXCEPT !.active_threads[context_id] = thread_data.id]

\* _get_or_create_thread: none of its awaits suspends (get_agent and
\* create_thread call the synchronous SDK client), so it runs in one step
get_or_create_thread(ex, context_id, task_name) ==
    IF ex.active_threads[context_id] = 0
    THEN LET thread_data == create_thread(ex, task_name)
         IN  [thread_data.ex EXCEPT !.active_threads[context_id] = thread_data.id]
    ELSE ex

InitThreads ==
    /\ user_query = <<>>
    /\ routing_info = NoRouting
    /\ processed_query = <<>>
    /\ result = NewResult(<<>>, NoRouting)
    /\ pc = "idle"
    /\ calls = [a \in Agents |-> NoCall]
    /\ frame = InitialFrame
    /\ connected = [a \in Agents |-> "connected"]
    /\ other = NoOther
    /\ extraction = NoExtraction
    /\ executor = [active_threads |-> [c \in ThreadContexts |-> 0],
                   threads |-> [r \in 1..MaxRequests |-> 0],
                   created |-> 0,
                   step |-> "init",
                   requests |-> [r \in 1..MaxRequests |->
                                    [pc |-> "idle", context_id |-> "none", thread_id |-> 0]]]

\* execute is called for a request and reaches _process_request
RequestArrives(r, context_id) ==
    /\ executor.requests[r].pc = "idle"
    /\ executor' = [executor EXCEPT
                      !.step = "execute",
                      !.requests[r] = [pc |-> "process_request", context_id |-> context_id,
                                       thread_id |-> 0]]
    /\ UNCHANGED Unused

\* _process_request: the agent and the thread are obtained; when that raises
\* the request ends with a failed status, otherwise run_conversation is
\* awaited with the thread
GetThread(r, raises) ==
    /\ executor.requests[r].pc = "process_request"
    /\ executor' =
          IF raises
          THEN [executor EXCEPT !.step = "failed", !.requests[r].pc = "failed"]
          ELSE LET ex == get_or_create_thread(executor, executor.requests[r].context_id, r)
               IN  [ex EXCEPT
                      !.step = "get_thread",
                      !.requests[r].pc = "conversation",
                      !.requests[r].thread_id =
                          ex.active_threads[executor.requests[r].context_id]]
    /\ UNCHANGED Unused

\* cleanup: the agent is dropped with its threads dict and
\* self._active_threads is cleared
CleanupThreads ==
    /\ executor.step # "cleanup"
    /\ executor' = [executor EXCEPT
                      !.step = "cleanup",
                      !.active_threads = [c \in ThreadContexts |-> 0],
                      !.threads = [r \in 1..MaxRequests |-> 0]]
    /\ UNCHANGED Unused

NextThreads ==
    \/ \E r \in 1..MaxRequests : \E context_id \in ThreadContexts : RequestArrives(r, context_id)
    \/ \E r \in 1..MaxRequests : \E raises \in BOOLEAN : GetThread(r, raises)
    \/ CleanupThreads

SpecThreads == InitThreads /\ [][NextThreads]_vars

(***************************************************************************)
(* The polling loop of run_conversation.  In executor, status is           *)
(* run.status as last read, iterations the number of polls made, responses *)
(* the assistant texts of the thread and returned the list returned.       *)
(***************************************************************************)
RunStatuses == {"queued", "in_progress", "requires_action", "completed", "failed"}

\* faulty variant: the number of polls is not bounded
poll_loop_continues_unbounded(run) ==
    run.status \in {"queued", "in_progress", "requires_action"}

\* the condition of the while loop
poll_loop_continues(run) ==
    /\ run.status \in {"queued", "in_progress", "requires_action"}
    /\ run.iterations < max_iterations

\* "run = self.client.agents.runs.create(...)", iterations = 0
InitPolling ==
    /\ user_query = <<>>
    /\ routing_info = NoRouting
    /\ processed_query = <<>>
    /\ result = NewResult(<<>>, NoRouting)
    /\ pc = "idle"
    /\ calls = [a \in Agents |-> NoCall]
    /\ frame = InitialFrame
    /\ connected = [a \in Agents |-> "connected"]
    /\ other = NoOther
    /\ extraction = NoExtraction
    /\ \E status \in RunStatuses, responses \in {<<>>, <<<<"S">>>>, <<<<"a">>, <<"b">>>>} :
          executor = [pc |-> "polling", raised |-> FALSE, status |-> status, iterations |-> 0,
                      responses |-> responses, last_error |-> <<"b","a","d">>, returned |-> <<>>]

\* one turn of the loop: "iterations += 1", the sleep, "run = ...runs.get(...)";
\* break on failed and continue on requires_action both lead to the loop test
Poll(status) ==
    /\ executor.pc = "polling"
    /\ poll_loop_continues(executor)
    /\ executor' = [executor EXCEPT !.iterations = @ + 1, !.status = status]
    /\ UNCHANGED Unused

\* the loop has ended: the timeout text, the failure text, or the responses
ConversationReturns ==
    /\ executor.pc = "polling"
    /\ ~poll_loop_continues(executor)
    /\ executor' = [executor EXCEPT !.pc = "returned",
                                    !.returned = run_conversation(executor).responses]
    /\ UNCHANGED Unused

NextPolling ==
    \/ \E status \in RunStatuses : Poll(status)
    \/ ConversationReturns

\* the event loop resumes the coroutine after each sleep
SpecPolling == InitPolling /\ [][NextPolling]_vars /\ WF_vars(NextPolling)

(***************************************************************************)
(* The file downloads of PythonToolAgent.process_message.  In executor,    *)
(* file_paths is the list of detected names, file the index of the name at *)
(* hand, attempt the loop variable of the retry loop, images the names of  *)
(* the files appended to result['images'], tried the number of             *)
(* download_file calls made for each name and got the names whose call     *)
(* returned data; found_filenames is what the regular expression found,   *)
(* in the order of the messages.                                           *)
(***************************************************************************)
MaxFound == 3

max_retries == 3

GeneratedFiles == {<<"a",".","p","n","g">>, <<"b",".","p","n","g">>}

\* "if filename not in file_paths: file_paths.append(filename)"
RECURSIVE detect_files(_, _, _)
detect_files(found_filenames, i, file_paths) ==
    IF i > Len(found_filenames) THEN file_paths
    ELSE detect_files(found_filenames, i + 1,
                      IF InList(found_filenames[i], file_paths) THEN file_paths
                      ELSE Append(file_paths, found_filenames[i]))

\* faulty variant: the exception of the last attempt ends process_message,
\* which returns the error text without images
download_attempt_abandoning(ex, outcome) ==
    LET file_name == ex.file_paths[ex.file]
        tried == [ex EXCEPT !.tried[file_name] = @ + 1]
        next_file == [tried EXCEPT !.file = @ + 1, !.attempt = 0]
    IN  CASE outcome = "data" ->
                 [next_file EXCEPT !.images = Append(@, file_name), !.got = @ \cup {file_name}]
          [] ex.attempt < max_retries - 1 -> [tried EXCEPT !.attempt = @ + 1]
          [] outcome = "raises" -> [tried EXCEPT !.pc = "returned", !.images = <<>>, !.failed = TRUE]
          [] OTHER -> next_file

\* one turn of "for attempt in range(max_retries)": download_file returns
\* data (break, the image is appended), returns None, or raises; the
\* exception of the last attempt is raised to the except clause of the file
download_attempt(ex, outcome) ==
    LET file_name == ex.file_paths[ex.file]
        tried == [ex EXCEPT !.tried[file_name] = @ + 1]
        next_file == [tried EXCEPT !.file = @ + 1, !.attempt = 0]
    IN  CASE outcome = "data" ->
                 [next_file EXCEPT !.images = Append(@, file_name), !.got = @ \cup {file_name}]
          [] ex.attempt < max_retries - 1 -> [tried EXCEPT !.attempt = @ + 1]
          [] OTHER -> next_file

InitDownload ==
    /\ user_query = <<>>
    /\ routing_info = NoRouting
    /\ processed_query = <<>>
    /\ result = NewResult(<<>>, NoRouting)
    /\ pc = "idle"
    /\ calls = [a \in Agents |-> NoCall]
    /\ frame = InitialFrame
    /\ connected = [a \in Agents |-> "connected"]
    /\ other = NoOther
    /\ extraction = NoExtraction
    /\ \E found_filenames \in UNION { [1..n -> GeneratedFiles] : n \in 0..MaxFound } :
          executor = [pc |-> "download", found_filenames |-> found_filenames,
                      file_paths |-> detect_files(found_filenames, 1, <<>>),
                      file |-> 1, attempt |-> 0, images |-> <<>>,
                      tried |-> [f \in GeneratedFiles |-> 0], got |-> {}, failed |-> FALSE]

\* "file_data_io = await self.python_tool.download_file(...)"
DownloadAttempt(outcome) ==
    /\ executor.pc = "download"
    /\ executor.file <= Len(executor.file_paths)
    /\ executor' = download_attempt(executor, outcome)
    /\ UNCHANGED Unused

\* the loop over file_paths has ended: "return result"
ProcessMessageReturns ==
    /\ executor.pc = "download"
    /\ executor.file > Len(executor.file_paths)
    /\ executor' = [executor EXCEPT !.pc = "returned"]
    /\ UNCHANGED Unused

NextDownload ==
    \/ \E outcome \in {"data", "none", "raises"} : DownloadAttempt(outcome)
    \/ ProcessMessageReturns

SpecDownload == InitDownload /\ [][NextDownload]_vars
----------------------------------------------------------------------------
(* Properties *)

HasError == "error" \in DOMAIN result
Strategy == routing_info.strategy
Classified == pc # "idle"

\* the agent of src/bing_grounding_agent, as a routing decision would name it
SearchCostingAgent == "BingGrounding"

\* C1: every query containing a costing keyword is classified as a direct
\* single-agent run of the Search/Costing agent alone, whatever other
\* keywords it contains.
C1_CostingRoutesToSearch ==
    (Classified /\ is_costing(user_query))
        => /\ routing_info.agents = <<SearchCostingAgent>>
           /\ routing_info.workflow = "None"

\* C2: a query with a visualization and a structural keyword and no catalog
\* keyword is classified as the sequential pipeline over [SQL, Python].
C2_VizStructuralIsSequential ==
    (Classified /\ is_visualization(user_query) /\ is_sql(user_query)
                /\ ~is_databricks(user_query))
        => /\ Strategy = "sequential_chart"
           /\ routing_info.agents = <<"SQL", "Python">>

C2_Witness ==
    /\ pc = "analyzed"
    /\ user_query = <<"S","h","o","w"," ","m","e"," ","B","r","i","d","g","e"," ","1","0","0","1"," ","s","p","a","n"," ","l","e","n","g","t","h","s"," ","a","s"," ","a"," ","b","a","r"," ","c","h","a","r","t">>
    /\ ~is_databricks(user_query)
    /\ Strategy = "sequential_chart"

\* C3: in the sequential pipeline the Python call is made only once the SQL
\* call has returned, the two calls are never in flight together, and the
\* Python prompt carries the whole text extracted from the SQL response.
C3_SequentialNoOverlap ==
    Strategy = "sequential_chart"
        => /\ ~(calls["sql"].state = "inflight" /\ calls["python"].state = "inflight")
           /\ calls["python"].state # "none"
                => /\ calls["sql"].state = "returned"
                   /\ Contains(calls["python"].arg,
                               <<"d","a","t","a",":","\n","\n">>
                               \o extract_from_a2a_response(calls["sql"].response).text
                               \o <<"\n","\n","O","r","i","g","i","n","a","l"," ","r","e","q","u","e","s","t",":"," ">>)

C3_Witness ==
    /\ Strategy = "sequential_chart"
    /\ calls["python"].state = "inflight"
    /\ calls["sql"].state = "returned"
    /\ extract_from_a2a_response(calls["sql"].response).text = <<"s","p","a","n"," ","1",":"," ","3","0"," ","m","\n","s","p","a","n"," ","2",":"," ","4","5"," ","m">>

\* C4: when the Databricks call of a fan-out raises after the SQL call has
\* returned, the result has an error and agent_responses still holds the
\* text extracted from the SQL response.
C4_PartialFailureKeepsStructural ==
    (/\ Strategy = "concurrent_data"
     /\ pc = "done"
     /\ frame.done_order = <<"sql", "databricks">>
     /\ calls["sql"].state = "returned"
     /\ calls["databricks"].state = "raised")
        => /\ HasError
           /\ "sql" \in DOMAIN result.agent_responses
           /\ result.agent_responses["sql"]
                  = extract_from_a2a_response(calls["sql"].response).text

\* C5: no exception of the executing strategy reaches the caller of run, and
\* the returned result has an error key exactly when a call of the strategy
\* raised; a run in progress has no error key.
C5_ErrorIffStrategyRaised ==
    /\ pc # "propagated"
    /\ pc = "done" => (HasError <=> \E a \in Agents : calls[a].state = "raised")
    /\ pc # "done" => ~HasError

C5_Witness ==
    /\ pc = "done"
    /\ HasError
    /\ result["error"] = <<"t","i","m","e","o","u","t">>
    /\ calls["python"].state = "raised"
    /\ calls["sql"].state = "returned"

\* C6: in the fan-out and the three-stage pattern both first-stage calls are
\* made before run waits for either, and the Databricks call has started by
\* the time the SQL call returns.
C6_BothInitiatedBeforeAwait ==
    Strategy \in {"concurrent_data", "three_agent_workflow"}
        => /\ InGather => \A a \in {"sql", "databricks"} : calls[a].state # "none"
           /\ calls["sql"].state = "returned"
                => calls["databricks"].state \notin {"none", "scheduled"}

C6_Witness ==
    /\ Strategy = "concurrent_data"
    /\ pc = "data_gather"
    /\ calls["sql"].state = "inflight"
    /\ calls["databricks"].state = "inflight"

EndsWith(s, k) == Len(k) <= Len(s) /\ SubSeq(s, Len(s) - Len(k) + 1, Len(s)) = k

\* C7: in the three-stage pipeline the Python call is made at most once (once
\* on success), only after both first-stage calls returned; both first-stage
\* agents get the preprocessed query, and the Python prompt holds both
\* extracted texts and ends with the original query.
C7_ThreeStageOrderAndPrompt ==
    Strategy = "three_agent_workflow"
        => /\ calls["python"].count <= 1
           /\ (pc = "done" /\ ~HasError) => calls["python"].count = 1
           /\ processed_query = Strip(StripKeywords(user_query, viz_keywords, 1))
           /\ \A a \in {"sql", "databricks"} :
                 calls[a].state # "none" /\ calls[a].arg = processed_query
           /\ calls["python"].state # "none"
                => /\ calls["sql"].state = "returned"
                   /\ calls["databricks"].state = "returned"
                   /\ Contains(calls["python"].arg,
                               extract_from_a2a_response(calls["sql"].response).text)
                   /\ Contains(calls["python"].arg,
                               extract_from_a2a_response(calls["databricks"].response).text)
                   /\ EndsWith(calls["python"].arg, <<"O","r","i","g","i","n","a","l"," ","r","e","q","u","e","s","t",":"," ">> \o user_query)

C7_Witness ==
    /\ Strategy = "three_agent_workflow"
    /\ pc = "done"
    /\ ~HasError
    /\ processed_query # user_query
    /\ extract_from_a2a_response(calls["sql"].response).text = <<"S">>
    /\ extract_from_a2a_response(calls["databricks"].response).text = <<"C">>

\* C8: a query with a visualization, a catalog and a structural keyword is
\* classified as the three-stage pipeline over [SQL, Databricks, Python]; the
\* two-facet rules do not take it.
C8_ThreeFacetsIsThreeStage ==
    (Classified /\ is_visualization(user_query) /\ is_databricks(user_query)
                /\ is_sql(user_query))
        => /\ Strategy = "three_agent_workflow"
           /\ routing_info.agents = <<"SQL", "Databricks", "Python">>

C8_Witness ==
    /\ pc = "analyzed"
    /\ user_query = <<"C","o","m","p","a","r","e"," ","B","r","i","d","g","e"," ","1","0","0","1"," ","m","a","t","e","r","i","a","l","s"," ","w","i","t","h"," ","G","D","O","T"," ","s","t","a","n","d","a","r","d","s"," ","a","s"," ","a"," ","c","h","a","r","t">>
    /\ Strategy = "three_agent_workflow"

\* C9: for a query with catalog and structural keywords and no visualization
\* keyword, run selects the fan-out over [SQL, Databricks] and calls both
\* agents, and only them, with the user's query as given.
C9_FanOutUnmodifiedQuery ==
    (Classified /\ is_databricks(user_query) /\ is_sql(user_query)
                /\ ~is_visualization(user_query))
        => /\ Strategy = "concurrent_data"
           /\ routing_info.agents = <<"SQL", "Databricks">>
           /\ \A a \in {"sql", "databricks"} :
                 calls[a].state # "none" /\ calls[a].arg = user_query
           /\ calls["python"].state = "none"

C9_Witness ==
    /\ user_query = <<"G","e","t"," ","B","r","i","d","g","e"," ","1","0","0","1"," ","s","t","r","u","c","t","u","r","a","l"," ","d","a","t","a"," ","a","n","d"," ","G","D","O","T"," ","m","a","t","e","r","i","a","l"," ","s","t","a","n","d","a","r","d","s">>
    /\ Strategy = "concurrent_data"
    /\ calls["sql"].state = "returned"
    /\ calls["databricks"].state = "returned"
    /\ calls["sql"].arg = user_query

\* C10: every query, the empty one included, is classified with at least one
\* participating agent, and a query matching no facet keyword is a direct run
\* of the SQL agent.
C10_ClassifyTotal ==
    Classified
        => /\ Len(routing_info.agents) >= 1
           /\ (~is_visualization(user_query) /\ ~is_databricks(user_query)
               /\ ~is_sql(user_query))
                => /\ Strategy = "direct_sql"
                   /\ routing_info.agents = <<"SQL">>

C10_Witness ==
    /\ pc = "analyzed"
    /\ user_query = <<>>
    /\ Strategy = "direct_sql"
    /\ routing_info.agents = <<"SQL">>

\* the strategy line of the UI preview for a strategy of the classifier
PreviewLabel(strategy) ==
    CASE strategy = "three_agent_workflow" -> "Three-Agent Workflow"
      [] strategy = "sequential_chart" -> "Sequential Chart Workflow"
      [] strategy = "concurrent_data" -> "Parallel Data Workflow"
      [] strategy = "direct_databricks" -> "Direct Databricks Agent"
      [] strategy = "direct_sql" -> "Direct SQL Agent"
      [] OTHER -> "none"

\* C11: for every query the strategy the UI preview shows is the strategy
\* the classifier of the orchestrator chooses.
C11_PreviewMatchesClassifier ==
    Classified => preview_strategy(user_query) = PreviewLabel(Strategy)

\* C12: with the visualization facet false, the preprocessed query is the
\* query itself, surrounding whitespace included.
C12_NonVizUnchanged ==
    (pc = "preprocessed" /\ ~routing_info.is_visualization)
        => processed_query = user_query

C12_Witness ==
    /\ pc = "preprocessed"
    /\ ~routing_info.is_visualization
    /\ user_query = <<" ","b","r","i","d","g","e","\t">>
    /\ processed_query = user_query

NoOuterWhitespace(s) ==
    s = <<>> \/ (Head(s) \notin Whitespace /\ s[Len(s)] \notin Whitespace)

\* C13: with the visualization facet true, the preprocessed query contains
\* none of the configured visualization phrases and has no leading or
\* trailing whitespace.
C13_VizPhrasesRemoved ==
    (pc = "preprocessed" /\ routing_info.is_visualization)
        => /\ \A i \in DOMAIN viz_keywords : ~Contains(processed_query, viz_keywords[i])
           /\ NoOuterWhitespace(processed_query)

\* C14: with the visualization facet true, every SQL or Databricks call that
\* run makes carries the preprocessed query, in every strategy.
C14_NonVizAgentsGetPreprocessed ==
    (Classified /\ routing_info.is_visualization)
        => \A a \in {"sql", "databricks"} :
              calls[a].state # "none" => calls[a].arg = processed_query

\* C15: in the sequential pipeline the SQL agent is called with the
\* preprocessed query, and the Python prompt holds the text extracted from
\* the SQL response and ends with the original query.
C15_SequentialArguments ==
    Strategy = "sequential_chart"
        => /\ calls["sql"].state # "none"
           /\ calls["sql"].arg = Strip(StripKeywords(user_query, viz_keywords, 1))
           /\ calls["python"].state # "none"
                => /\ StartsWith(calls["python"].arg,
                                 <<"C","r","e","a","t","e"," ","a"," ","b","a","r"," ","c","h","a","r","t"," ","f","o","r"," ","t","h","i","s"," ","d","a","t","a",":","\n","\n">>
                                 \o extract_from_a2a_response(calls["sql"].response).text)
                   /\ EndsWith(calls["python"].arg, <<"\n","\n","O","r","i","g","i","n","a","l"," ","r","e","q","u","e","s","t",":"," ">> \o user_query)

C15_Witness ==
    /\ Strategy = "sequential_chart"
    /\ user_query = <<"S","h","o","w"," ","m","e"," ","B","r","i","d","g","e"," ","1","0","0","1"," ","s","p","a","n"," ","l","e","n","g","t","h","s"," ","a","s"," ","a"," ","b","a","r"," ","c","h","a","r","t">>
    /\ calls["sql"].arg = <<"S","h","o","w"," ","m","e"," ","B","r","i","d","g","e"," ","1","0","0","1"," ","s","p","a","n"," ","l","e","n","g","t","h","s">>
    /\ calls["python"].state = "returned"
    /\ extract_from_a2a_response(calls["sql"].response).text = <<"S">>

\* C16 as stated: the fan-out merge is "=== Structural ===\nS\n\n=== Catalog ===\nC",
\* and the merged images are the SQL images followed by the Databricks images.
C16_FanOutMergeStated ==
    (Strategy = "concurrent_data" /\ pc = "done" /\ ~HasError)
        => LET s == extract_from_a2a_response(calls["sql"].response)
               c == extract_from_a2a_response(calls["databricks"].response)
           IN  /\ result.text = <<"=","=","="," ","S","t","r","u","c","t","u","r","a","l"," ","=","=","=","\n">> \o s.text
                                \o <<"\n","\n","=","=","="," ","C","a","t","a","l","o","g"," ","=","=","=","\n">> \o c.text
               /\ result.images = s.images \o c.images

\* C16: the fan-out merge is
\* "=== SQL Foundry Agent ===\nS\n\n=== Databricks Agent ===\nC", and the
\* merged images are the SQL images followed by the Databricks images.
C16_FanOutMerge ==
    (Strategy = "concurrent_data" /\ pc = "done" /\ ~HasError)
        => LET s == extract_from_a2a_response(calls["sql"].response)
               c == extract_from_a2a_response(calls["databricks"].response)
           IN  /\ result.text = <<"=","=","="," ","S","Q","L"," ","F","o","u","n","d","r","y"," ","A","g","e","n","t"," ","=","=","=","\n">> \o s.text
                                \o <<"\n","\n","=","=","="," ","D","a","t","a","b","r","i","c","k","s"," ","A","g","e","n","t"," ","=","=","=","\n">> \o c.text
               /\ result.images = s.images \o c.images

C16_Witness ==
    /\ Strategy = "concurrent_data"
    /\ pc = "done"
    /\ result.text = <<"=","=","="," ","S","Q","L"," ","F","o","u","n","d","r","y"," ","A","g","e","n","t"," ","=","=","=","\n","S","\n","\n","=","=","="," ","D","a","t","a","b","r","i","c","k","s"," ","A","g","e","n","t"," ","=","=","=","\n","C">>
    /\ Len(result.images) = 2
    /\ result.images[1].name = <<"s","q","l",".","p","n","g">>
    /\ result.images[2].name = <<"t","a","b","l","e",".","j","p","g">>

ImagesOf(a) ==
    LET imgs == extract_from_a2a_response(calls[a].response).images
    IN  { imgs[i] : i \in DOMAIN imgs }

\* C17: in the sequential and the three-stage pipeline the images of the
\* result are the images extracted from the Python response, in order, and
\* none of them comes from the SQL or the Databricks response.
C17_PipelineImagesFromViz ==
    Strategy \in {"sequential_chart", "three_agent_workflow"}
        => /\ (pc = "done" /\ ~HasError)
                => result.images = extract_from_a2a_response(calls["python"].response).images
           /\ ~(pc = "done" /\ ~HasError) => result.images = <<>>
           /\ \A i \in DOMAIN result.images :
                 result.images[i] \notin ImagesOf("sql") \cup ImagesOf("databricks")

C17_Witness ==
    /\ Strategy = "sequential_chart"
    /\ pc = "done"
    /\ ImagesOf("sql") # {}
    /\ Len(result.images) = 1
    /\ result.images[1].name = <<"c","h","a","r","t",".","p","n","g">>
    /\ result.images[1].data = <<137, 80, 78>>

\* C18: when the Python call of a pipeline raises after the first stage
\* completed, the result has an error and its text and agent_responses hold
\* the text extracted in the first stage.
C18_SecondStageFailureKeepsFirst ==
    (/\ Strategy \in {"sequential_chart", "three_agent_workflow"}
     /\ pc = "done"
     /\ calls["python"].state = "raised")
        => /\ HasError
           /\ "sql" \in DOMAIN result.agent_responses
           /\ result.agent_responses["sql"] = frame.sql_extracted.text
           /\ Contains(result.text, frame.sql_extracted.text)

\* the key of an agent of a routing decision in calls and agent_responses
AgentKey(name) ==
    CASE name = "SQL" -> "sql" [] name = "Databricks" -> "databricks" [] OTHER -> "python"

Participates(a, routing) == \E i \in DOMAIN routing.agents : AgentKey(routing.agents[i]) = a

\* C19: a failed or timed out handshake of an agent of the chosen strategy
\* ends in a result with an error, not in an exception at the caller, and a
\* failed handshake of an agent outside the strategy does not fail the
\* request.
C19_HandshakeFailureInResult ==
    \A a \in Agents :
        connected[a] \in {"failed", "timeout"}
            => IF Participates(a, analyze_query(user_query))
               THEN /\ pc # "enter_failed"
                    /\ pc = "done" => HasError
               ELSE /\ pc # "enter_failed"
                    /\ pc = "done" => ~HasError

Status ==
    CASE pc = "idle" -> "Idle"
      [] pc = "done" -> IF HasError THEN "Failed" ELSE "Completed"
      [] OTHER -> "Running"

\* C20: in one run every agent is called at most once, and the run goes from
\* Idle to Running to either Completed or Failed and stays there, with its
\* result unchanged.
C20_NoRetrySingleTerminal ==
    [][ /\ \A a \in Agents : calls'[a].count <= 1
        /\ Status = "Idle" => Status' \in {"Idle", "Running"}
        /\ Status = "Running" => Status' \in {"Running", "Completed", "Failed"}
        /\ Status \in {"Completed", "Failed"} => (Status' = Status /\ result' = result)
      ]_vars

C20_Witness ==
    /\ Status = "Failed"
    /\ Strategy = "concurrent_data"
    /\ frame.done_order = <<"sql", "databricks">>
    /\ calls["sql"].state = "raised"
    /\ calls["databricks"].state = "returned"
    /\ calls["sql"].count = 1

\* the agents whose run call has been made and has not ended
InFlight == { a \in Agents : calls[a].state \in {"scheduled", "inflight"} }

\* C21: during one run, at most two agent calls are in flight at the same
\* time, in every strategy.
C21_AtMostTwoInFlight == Cardinality(InFlight) <= 2

C21_Witness ==
    /\ Strategy = "three_agent_workflow"
    /\ pc = "three_gather"
    /\ calls["sql"].state = "inflight"
    /\ calls["databricks"].state = "inflight"
    /\ Cardinality(InFlight) = 2

\* the result a run returns when it is the only run on the orchestrator, from
\* its query and from what its agent calls returned or raised
ResultAlone(l) ==
    LET routing == analyze_query(l.user_query)
        base == NewResult(l.user_query, routing)
        ex(a) == extract_from_a2a_response(l.calls[a].response)
        raised(a) == l.calls[a].state = "raised"
        failed(error) == run_except(base, error).result
    IN  CASE routing.strategy = "three_agent_workflow" ->
               IF l.frame.gather_exc.raised THEN failed(l.frame.gather_exc.error)
               ELSE IF raised("python") THEN failed(l.calls["python"].error)
               ELSE three_agent_result(base,
                        three_agent_combined_data(ex("sql").text, ex("databricks").text),
                        ex("sql"), ex("databricks"), ex("python"))
          [] routing.strategy = "sequential_chart" ->
               IF raised("sql") THEN failed(l.calls["sql"].error)
               ELSE IF raised("python") THEN failed(l.calls["python"].error)
               ELSE chart_workflow_result(base, ex("sql"), ex("python"))
          [] routing.strategy = "concurrent_data" ->
               IF l.frame.gather_exc.raised THEN failed(l.frame.gather_exc.error)
               ELSE data_workflow_result(base, ex("sql"), ex("databricks"))
          [] routing.strategy = "direct_databricks" ->
               IF raised("databricks") THEN failed(l.calls["databricks"].error)
               ELSE direct_agent_result(base, "databricks", ex("databricks"))
          [] OTHER ->
               IF raised("sql") THEN failed(l.calls["sql"].error)
               ELSE direct_agent_result(base, "sql", ex("sql"))

\* C22: with two runs interleaved on one orchestrator, the result of each run
\* is the result it returns when run alone with the same agent responses, and
\* no step of a run writes a field of the orchestrator.
C22_ConcurrentRunsIndependent ==
    /\ pc = "done" => result = ResultAlone(Locals)
    /\ other.pc = "done" => other.result = ResultAlone(other)
    /\ connected = [a \in Agents |-> "connected"]

C22_Witness ==
    /\ pc = "done"
    /\ other.pc = "done"
    /\ Strategy = "sequential_chart"
    /\ other.routing_info.strategy = "concurrent_data"
    /\ ~HasError
    /\ "error" \in DOMAIN other.result
    /\ result.query # other.result.query

\* C23: in the sequential and the three-stage pipeline, an image that the
\* Python response carries in a task's history of status messages is among
\* the images of the result, also when the final status does not carry it.
C23_HistoryImagesInResult ==
    (/\ Strategy \in {"sequential_chart", "three_agent_workflow"}
     /\ pc = "done"
     /\ ~HasError)
        => LET deep == create_visualization(calls["python"].response)
           IN  \A i \in DOMAIN deep.images :
                  \E j \in DOMAIN result.images : result.images[j].data = deep.images[i]

Extractors == {"a2a", "workflow", "visualization"}

\* C24: no extractor appends the same non-empty text twice within one call.
C24_NoTextAppendedTwice ==
    (extraction.extractor \in Extractors /\ ~extraction.raised)
        => \A i, j \in DOMAIN extraction.text_parts :
              (i # j /\ extraction.text_parts[i] # <<>>)
                  => extraction.text_parts[i] # extraction.text_parts[j]

\* the parts of the status messages of a response, in order
RECURSIVE StatusParts(_, _)
StatusParts(tasks, i) ==
    IF i > Len(tasks) THEN <<>>
    ELSE LET task == tasks[i]
             parts == IF Has(task, "status") /\ Has(task.status, "message")
                         /\ Has(task.status.message, "parts")
                      THEN task.status.message.parts ELSE <<>>
         IN  parts \o StatusParts(tasks, i + 1)

IsTextPart(part) == Has(part, "root") /\ Has(part.root, "text") /\ part.root.text # None

\* a file part that carries base64 bytes
IsImagePart(part) ==
    /\ Has(part, "root") /\ Has(part.root, "file") /\ Has(part.root.file, "bytes")
    /\ TruthyStr(part.root.file.bytes)
    /\ b64decode(part.root.file.bytes).ok

\* C25: from a response with exactly one text part and one image part (a file
\* part carrying base64 bytes), the extracted text is the text of the text
\* part, and the images are one record with the decoded bytes and the mime
\* type of the file part.
C25_RoundTrip ==
    extraction.extractor = "a2a" /\ Has(extraction.response, "raw_representation")
        => LET parts == StatusParts(extraction.response.raw_representation, 1)
           IN  \A i, j \in DOMAIN parts :
                  (Len(parts) = 2 /\ IsTextPart(parts[i]) /\ IsImagePart(parts[j]))
                      => /\ extraction.text = parts[i].root.text
                         /\ Len(extraction.images) = 1
                         /\ extraction.images[1].data = b64decode(parts[j].root.file.bytes).data
                         /\ Has(parts[j].root.file, "mime_type")
                               => extraction.images[1].mime_type = parts[j].root.file.mime_type

C25_Witness ==
    /\ extraction.extractor = "a2a"
    /\ extraction.response =
          Response(<<Task(<<FilePart(<<"Q","U","I","=">>, <<"i","m","a","g","e","/","j","p","e","g">>, <<"a",".","j","p","g">>), TextPart(<<"S">>)>>)>>)
    /\ extraction.text = <<"S">>
    /\ extraction.images = <<[data |-> <<65, 66>>, mime_type |-> <<"i","m","a","g","e","/","j","p","e","g">>, name |-> <<"a",".","j","p","g">>]>>

\* C26: every image record has a mime type and a name that are neither None
\* nor empty; a file object without them gives "image/png" and "image.png".
C26_ImageDefaults ==
    extraction.extractor = "a2a"
        => \A i \in DOMAIN extraction.images :
              /\ TruthyStr(extraction.images[i].mime_type)
              /\ TruthyStr(extraction.images[i].name)

\* every part of a response, those of the history before those of the status
RECURSIVE AllParts(_, _)
AllParts(tasks, i) ==
    IF i > Len(tasks) THEN <<>>
    ELSE LET task == tasks[i]
             RECURSIVE HistoryParts(_)
             HistoryParts(k) ==
                 IF ~Has(task, "history") \/ k > Len(task.history) THEN <<>>
                 ELSE (IF Has(task.history[k], "parts") THEN task.history[k].parts ELSE <<>>)
                      \o HistoryParts(k + 1)
         IN  HistoryParts(1) \o StatusParts(<<task>>, 1) \o AllParts(tasks, i + 1)

\* no part of the response carries bytes that are not base64
WellFormedBytes(response) ==
    Has(response, "raw_representation")
        => LET parts == AllParts(response.raw_representation, 1)
           IN  \A i \in DOMAIN parts :
                  (/\ Has(parts[i], "root") /\ Has(parts[i].root, "file")
                   /\ Has(parts[i].root.file, "bytes")
                   /\ TruthyStr(parts[i].root.file.bytes))
                      => b64decode(parts[i].root.file.bytes).ok

\* C27: on a response in which fields are absent, empty or None, neither
\* _extract_from_a2a_response nor create_visualization raises.
C27_ExtractionTotal ==
    (extraction.extractor \in {"a2a", "visualization"} /\ WellFormedBytes(extraction.response))
        => ~extraction.raised

\* the updates the execute call itself has sent
RECURSIVE OwnUpdates(_, _)
OwnUpdates(events, i) ==
    IF i > Len(events) THEN <<>>
    ELSE (IF events[i].by = "execute" THEN <<events[i]>> ELSE <<>>) \o OwnUpdates(events, i + 1)

Terminal == {"completed", "failed"}

C29_AgentFailureIsFailedTask ==
    (executor.pc = "returned" /\ executor.underlying = "failed")
        => LET own == OwnUpdates(executor.events, 1)
           IN  own[Len(own)].state = "failed"

\* C30: the updates of an execute call are: submitted, exactly when the
\* request has no current task; then working (start of work); then working
\* updates; then one completed or failed update, which is the last one. The
\* image updates of the Python executor are working updates, sent before the
\* completed one.
C30_UpdateOrder ==
    executor.pc # "absent"
        => LET own == OwnUpdates(executor.events, 1)
               first == IF executor.current_task THEN 1 ELSE 2
           IN  /\ \A i \in DOMAIN own :
                      /\ own[i].state = "submitted" <=> (i = 1 /\ ~executor.current_task)
                      /\ own[i].state \in Terminal => i = Len(own) /\ i > first
                      /\ i = first => (own[i].state = "working" /\ own[i].part = "none")
                      /\ own[i].part = "image"
                            => (executor.kind = "python" /\ own[i].state = "working")
               /\ executor.pc = "returned"
                     <=> (own # <<>> /\ own[Len(own)].state \in Terminal)

C30_Witness ==
    /\ executor.pc = "returned"
    /\ executor.kind = "python"
    /\ ~executor.current_task
    /\ executor.cancels = 0
    /\ Len(executor.events) = 7
    /\ executor.events[1].state = "submitted"
    /\ executor.events[5].part = "image"
    /\ executor.events[6].part = "image"
    /\ executor.events[7].state = "completed"

\* C37: when a run ends without error, agent_responses has one entry for
\* each agent of the routing decision and no other entry, and until then it
\* has none.
C37_AgentResponsesMatchRouting ==
    Classified
        => IF pc = "done" /\ ~HasError
           THEN DOMAIN result.agent_responses =
                    { AgentKey(routing_info.agents[i]) : i \in DOMAIN routing_info.agents }
           ELSE DOMAIN result.agent_responses = {}

C37_Witness ==
    /\ pc = "done"
    /\ ~HasError
    /\ Strategy = "three_agent_workflow"
    /\ routing_info.agents = <<"SQL", "Databricks", "Python">>
    /\ DOMAIN result.agent_responses = {"sql", "databricks", "python"}
    /\ result.agent_responses["python"] = <<"V">>


\* C31: after the failed status that cancel sends while the execute call of
\* the task is running, execute sends no further status update; a task has at most one terminal status,
\* and the last status of a cancelled task is not completed.
C31_NoUpdateAfterCancel ==
    executor.pc # "absent"
        => LET events == executor.events
           IN  /\ \A k, i, j \in DOMAIN events :
                     (k < i /\ i < j /\ events[k].by = "execute" /\ events[i].by = "cancel")
                         => events[j].by # "execute"
               /\ Cardinality({ i \in DOMAIN events : events[i].state \in Terminal }) <= 1
               /\ (executor.cancels > 0 /\ events # <<>>)
                     => events[Len(events)].state # "completed"

\* the execute call is between "_active_contexts.add" and "_active_contexts.discard"
Tracked(ex) == ex.pc \in {"process_request", "agent", "updates"}

\* the execute call has not begun or has returned
NotRunning(ex) == ex.pc \in {"absent", "execute", "returned"}

\* C32: in the Python Tool and Databricks executors the context id is in
\* _active_contexts while an execute call for it is under way, whatever
\* cancel, cleanup and a second execute call for the same context do, and
\* is not in it when no execute call is running.
C32_ActiveContextsTrackExecutes ==
    (executor.pc # "absent" /\ executor.kind \in ContextKinds)
        => /\ (Tracked(executor) \/ Tracked(other)) => executor.active
           /\ (NotRunning(executor) /\ NotRunning(other)) => ~executor.active

\* C33: in the SQL executor a thread is made only for a context id that has
\* none, and is bound to it; a binding stays as it is until cleanup; two
\* context ids never have the same thread.
C33_OneThreadPerContext ==
    [][ LET old == executor.active_threads
            new == executor'.active_threads
        IN  /\ \A c \in ThreadContexts :
                   (old[c] # 0 /\ executor'.step # "cleanup") => new[c] = old[c]
            /\ executor'.created # executor.created
                   => /\ executor'.created = executor.created + 1
                      /\ \E c \in ThreadContexts : old[c] = 0 /\ new[c] = executor'.created
            /\ \A c, d \in ThreadContexts : (c # d /\ new[c] # 0) => new[c] # new[d]
      ]_vars

C33_Witness ==
    /\ executor.created = 2
    /\ executor.requests[1].pc = "conversation"
    /\ executor.requests[2].pc = "conversation"
    /\ executor.requests[3].pc = "conversation"
    /\ executor.requests[1].context_id = executor.requests[2].context_id
    /\ executor.requests[3].context_id # executor.requests[1].context_id
    /\ executor.requests[1].thread_id = executor.requests[2].thread_id
    /\ executor.requests[3].thread_id \notin {0, executor.requests[1].thread_id}
    /\ executor.active_threads[executor.requests[1].context_id] = executor.requests[1].thread_id

TimeoutText == <<<<"E","r","r","o","r",":"," ","S","Q","L"," ","q","u","e","r","y"," ","e","x","e","c","u","t","i","o","n"," ","t","i","m","e","d"," ","o","u","t","."," ","P","l","e","a","s","e"," ","t","r","y"," ","a"," ","s","i","m","p","l","e","r"," ","q","u","e","r","y",".">>>>

\* C34: run_conversation returns the timeout text only for a run that is
\* still queued, in_progress or requires_action; a run seen completed
\* returns its responses and a run seen failed returns the failure text,
\* also when that is seen on the last poll.
C34_TimeoutOnlyWhenNonTerminal ==
    executor.pc = "returned"
        => /\ executor.returned = TimeoutText
                 => executor.status \in {"queued", "in_progress", "requires_action"}
           /\ executor.status = "completed"
                 => executor.returned = (IF executor.responses # <<>> THEN executor.responses
                                         ELSE <<<<"N","o"," ","S","Q","L"," ","r","e","s","u","l","t","s"," ","r","e","c","e","i","v","e","d"," ","f","r","o","m"," ","A","z","u","r","e"," ","A","I"," ","F","o","u","n","d","r","y"," ","a","g","e","n","t">>>>)
           /\ executor.status = "failed"
                 => executor.returned = <<<<"E","r","r","o","r"," ","e","x","e","c","u","t","i","n","g"," ","S","Q","L"," ","q","u","e","r","y",":"," ">> \o executor.last_error>>

\* C35: the loop makes at most max_iterations polls and ends whatever the
\* statuses are, and run_conversation then returns a list that is not empty:
\* the responses, the timeout text, the failure text or the placeholder.
C35_PollingTerminates ==
    /\ [](executor.iterations <= max_iterations)
    /\ <>(executor.pc = "returned")
    /\ [](executor.pc = "returned"
            => /\ executor.returned # <<>>
               /\ \/ executor.returned = executor.responses
                  \/ executor.returned = TimeoutText
                  \/ executor.returned = <<<<"E","r","r","o","r"," ","e","x","e","c","u","t","i","n","g"," ","S","Q","L"," ","q","u","e","r","y",":"," ">> \o executor.last_error>>
                  \/ executor.returned = <<<<"N","o"," ","S","Q","L"," ","r","e","s","u","l","t","s"," ","r","e","c","e","i","v","e","d"," ","f","r","o","m"," ","A","z","u","r","e"," ","A","I"," ","F","o","u","n","d","r","y"," ","a","g","e","n","t">>>>)

C35_Witness ==
    /\ executor.pc = "returned"
    /\ executor.iterations = max_iterations
    /\ executor.status = "requires_action"
    /\ executor.returned = TimeoutText

\* the names of file_paths whose download returned data, in order
RECURSIVE Downloaded(_, _, _)
Downloaded(file_paths, got, i) ==
    IF i > Len(file_paths) THEN <<>>
    ELSE (IF file_paths[i] \in got THEN <<file_paths[i]>> ELSE <<>>)
             \o Downloaded(file_paths, got, i + 1)

\* C36: download_file is called at most max_retries times for a file name,
\* however often the name was found; when process_message returns, every
\* found name has been tried, process_message has not failed, and the images
\* are those of the files whose download returned data, whatever happened to
\* the other files.
C36_DownloadsAreIndependent ==
    /\ \A f \in GeneratedFiles : executor.tried[f] <= max_retries
    /\ executor.pc = "returned"
          => /\ ~executor.failed
             /\ \A i \in DOMAIN executor.found_filenames :
                    executor.tried[executor.found_filenames[i]] >= 1
             /\ executor.images = Downloaded(executor.file_paths, executor.got, 1)

C36_Witness ==
    /\ executor.pc = "returned"
    /\ executor.found_filenames = <<<<"a",".","p","n","g">>, <<"b",".","p","n","g">>, <<"a",".","p","n","g">>>>
    /\ executor.tried[<<"a",".","p","n","g">>] = max_retries
    /\ executor.got = {<<"b",".","p","n","g">>}
    /\ executor.images = <<<<"b",".","p","n","g">>>>
====
